---- MODULE Spec2Model ----
(***************************************************************************)
(* Model of the ovpn-manager instance provisioning and client lifecycle.   *)
(*                                                                         *)
(* State: the SQLite tables (instances, server_config, setup_state,        *)
(* clients), the per-instance easy-rsa authority, the written daemon       *)
(* configuration and per-client overrides, the host (packages, kernel      *)
(* forwarding, iptables rules, systemd units) and the HTTP requests in     *)
(* flight.  A handler is an async function: it runs without interruption   *)
(* up to its next `await`, so each action below is one such segment, and   *)
(* the external command awaited ends with success or with a non-zero exit. *)
(***************************************************************************)
EXTENDS Integers, Sequences, FiniteSets, TLC

\* ---------------------------------------------------------------- bounds
MaxOps == 4
MaxSlots == 2
MaxTime == 1

\* ---------------------------------------------------------------- inputs
AllInstances == {"office", "office-status"}
InstanceNames == {"office"}
ClientNames == {"alice"}
Slots == 1..MaxSlots
Ifaces == {"eth0"}
StaticIps == {"NULL", "10.8.0.5"}

NULL == -1
NoText == "NULL"

\* AppConfig.basePaths
serverDir == "/etc/openvpn/server"
logDir == "/var/log/openvpn"

\* The points at which InstanceService.create can fail, and "ok".
CreateOutcomes == {"ok", "mkdir_easyrsa", "mkdir_ccd", "mkdir_log",
                   "insert_instance", "insert_config", "insert_state"}

Bodies ==
  { [hostname |-> "vpn.example.com", port |-> 1194, protocol |-> "udp",
     devType |-> "tun", subnet |-> "10.8.0.0", subnetMask |-> <<255, 255, 255, 0>>,
     dns |-> <<"1.1.1.1", "1.0.0.1">>, cipher |-> "AES-256-GCM"],
    [hostname |-> "vpn2.example.com", port |-> 443, protocol |-> "tcp",
     devType |-> "tap", subnet |-> "10.9.0.0", subnetMask |-> <<255, 255, 0, 0>>,
     dns |-> <<"9.9.9.9">>, cipher |-> "AES-128-GCM"] }

NoBody == [hostname |-> "", port |-> 0, protocol |-> "", devType |-> "",
           subnet |-> "", subnetMask |-> <<0, 0, 0, 0>>, dns |-> <<>>, cipher |-> ""]

\* ---------------------------------------------------------------- state
VARIABLES
  instances,      \* instances table: name -> row, for the names that exist
  server_config,  \* server_config table, one row per instance
  setup_state,    \* setup_state table, one row per instance
  clients,        \* clients table: instance -> (client name -> row)
  pki,            \* easy-rsa authority of each instance
  files,          \* files written under the instance's paths
  host,           \* packages, forwarding, iptables rules, systemd units
  req,            \* request slots: the handler's position and its response
  connection_log, \* connection_log table: instance -> its history rows, in id order
  now,            \* the clock behind datetime('now')
  ops             \* number of requests received so far

vars == <<instances, server_config, setup_state, clients, connection_log, pki, files, host,
          req, now, ops>>

\* ---------------------------------------------------------------- setup steps
Steps == <<"none", "packages_installed", "pki_initialized", "server_configured",
           "network_configured", "running">>

StepIndex(s) == CHOOSE k \in 1..Len(Steps) : Steps[k] = s

\* The commands a setup run awaits, in program order.
SetupCmds == <<"apt_update", "apt_install",
               "init_pki", "build_ca", "server_cert", "gen_dh", "gen_ta", "gen_crl",
               "write_conf",
               "sysctl", "sysctl_file", "ip_route",
               "nat_check", "nat_add", "fwdout_check", "fwdout_add",
               "fwdin_check", "fwdin_add", "ipt_save", "rules_file",
               "svc_enable", "svc_start">>

CmdIndex(c) == CHOOSE k \in 1..Len(SetupCmds) : SetupCmds[k] = c

CheckCmds == {"nat_check", "fwdout_check", "fwdin_check"}

\* The step value the handler has persisted just before it awaits command c.
StepOfCmdSwapped(c) ==
  CASE c \in {"apt_update", "apt_install"} -> "packages_installed"
    [] c \in {"init_pki", "build_ca", "server_cert", "gen_dh", "gen_ta", "gen_crl"} -> "server_configured"
    [] c = "write_conf" -> "pki_initialized"
    [] c \in {"sysctl", "sysctl_file", "ip_route", "nat_check", "nat_add", "fwdout_check",
              "fwdout_add", "fwdin_check", "fwdin_add", "ipt_save", "rules_file"} -> "network_configured"
    [] OTHER -> "running"

StepOfCmd(c) ==
  CASE c \in {"apt_update", "apt_install"} -> "packages_installed"
    [] c \in {"init_pki", "build_ca", "server_cert", "gen_dh", "gen_ta", "gen_crl"} -> "pki_initialized"
    [] c = "write_conf" -> "server_configured"
    [] c \in {"sysctl", "sysctl_file", "ip_route", "nat_check", "nat_add", "fwdout_check",
              "fwdout_add", "fwdin_check", "fwdin_add", "ipt_save", "rules_file"} -> "network_configured"
    [] OTHER -> "running"

\* ---------------------------------------------------------------- pure helpers
RECURSIVE PopCount(_)
PopCount(n) == IF n = 0 THEN 0 ELSE (n % 2) + PopCount(n \div 2)

\* Eight bits for every octet that is 255, none for the others.
maskToCidrWholeOctets(mask) ==
  8 * Cardinality({k \in 1..4 : mask[k] = 255})

\* mask.split(".").reduce((bits, octet) => bits + <number of 1 digits of octet>, 0)
maskToCidr(mask) == PopCount(mask[1]) + PopCount(mask[2]) + PopCount(mask[3]) + PopCount(mask[4])

\* `tun_${instance.name}`: the name is kept, the prefix is implied.
tunDevice(i) == i

NatRule(subnet, mask, iface) ==
  [src |-> subnet, cidr |-> maskToCidr(mask), in |-> "", out |-> iface, target |-> "MASQUERADE"]
FwdOutRule(i, iface) ==
  [src |-> "", cidr |-> 0, in |-> tunDevice(i), out |-> iface, target |-> "ACCEPT"]
FwdInRule(i, iface) ==
  [src |-> "", cidr |-> 0, in |-> iface, out |-> tunDevice(i), target |-> "ACCEPT-ESTABLISHED"]

Count(rules, rule) == Cardinality({k \in 1..Len(rules) : rules[k] = rule})

\* derivePaths: a path is the sequence of its segments below the root, a base
\* directory being one segment.
derivePathsShared(name) ==
  [easyrsaDir |-> <<serverDir, name, "easy-rsa">>,
   configPath |-> <<serverDir, name \o ".conf">>,
   statusFile |-> <<logDir, name \o "-status.log">>,
   logFile |-> <<logDir, name \o ".log">>,
   ccdDir |-> <<serverDir, "ccd">>]

derivePaths(name) ==
  [easyrsaDir |-> <<serverDir, name, "easy-rsa">>,
   configPath |-> <<serverDir, name \o ".conf">>,
   statusFile |-> <<logDir, name \o "-status.log">>,
   logFile |-> <<logDir, name \o ".log">>,
   ccdDir |-> <<serverDir, name, "ccd">>]

\* The row with a status other than the column default.
NewInstanceActive(name) ==
  LET paths == derivePaths(name) IN
  [status |-> "active", easyrsa_dir |-> paths.easyrsaDir, config_path |-> paths.configPath,
   status_file |-> paths.statusFile, log_file |-> paths.logFile, ccd_dir |-> paths.ccdDir]

\* INSERT INTO instances (name, ..., easyrsa_dir, config_path, status_file, log_file, ccd_dir)
NewInstance(name) ==
  LET paths == derivePaths(name) IN
  [status |-> "setup", easyrsa_dir |-> paths.easyrsaDir, config_path |-> paths.configPath,
   status_file |-> paths.statusFile, log_file |-> paths.logFile, ccd_dir |-> paths.ccdDir]

\* ShellError.message names the command that failed.
ShellMessage(c) == c

DefaultServerConfig ==
  [hostname |-> "vpn.example.com", protocol |-> "udp", port |-> 1194, dev_type |-> "tun",
   subnet |-> "10.8.0.0", subnet_mask |-> <<255, 255, 255, 0>>,
   dns |-> <<"1.1.1.1", "1.0.0.1">>, cipher |-> "AES-256-GCM", auth |-> "SHA256",
   tls_auth |-> 1, compress |-> "", client_to_client |-> 0, max_clients |-> 100,
   keepalive |-> "10 120", pki_initialized |-> 0, updated_at |-> NULL]

InitialSetupState ==
  [step |-> "none", completed |-> FALSE, started_at |-> NULL, completed_at |-> NULL,
   error |-> NoText]

EmptyPki == [arts |-> {}, cert |-> [c \in ClientNames |-> "none"], crl |-> {}]
\* dirs: which of <serverDir>/<name> ("home"), its easy-rsa and its ccd exist.
EmptyFiles == [conf |-> <<>>, ccd |-> [c \in ClientNames |-> <<>>], dirs |-> {}]
EmptyUnit == [enabled |-> FALSE, active |-> FALSE]

NoResp == [code |-> 0, error |-> NoText, message |-> NoText, details |-> NoText]

IdleReq == [op |-> "none", inst |-> "", client |-> "", body |-> NoBody, staticIp |-> "NULL",
            pc |-> "idle", iface |-> "", conf |-> <<>>, saved |-> <<>>,
            content |-> [exists |-> FALSE, text |-> <<>>], conns |-> <<>>, row |-> <<>>,
            routes |-> <<>>, resp |-> NoResp]

\* The names errorHandler puts in the error field.
ErrorKinds == {"NotFoundError", "ValidationError", "ConflictError", "ServiceError", "ShellError",
               "InternalError"}

\* The message of the error body: err.message of an AppError or a ShellError, the
\* fixed text of an unhandled error; a body written by a handler as { error: text }
\* has none.
MessageOf(error, details) ==
  CASE error = "NotFoundError" -> "not found"
    [] error = "ConflictError" -> "already exists"
    [] error = "ValidationError" -> "invalid"
    [] error = "ServiceError" -> "Setup failed"
    [] error = "ShellError" -> details
    [] error = "InternalError" -> "An unexpected error occurred"
    [] OTHER -> NoText

\* errorHandler: { error: err.name, message, details } with the status code.
Resp(code, error, details) ==
  [code |-> code, error |-> error, message |-> MessageOf(error, details), details |-> details]
Reply(code, message) == [code |-> code, error |-> NoText, message |-> message, details |-> NoText]

\* A slot is free when no handler occupies it; it keeps the last response.
Free(r) == req[r].pc \in {"idle", "done"}
InFlight(r) == ~Free(r)

\* Single-writer assumption: callers serialize the mutating operations on one
\* instance, so a request for instance i arrives only when none is in flight on i.
Quiet(i) == \A q \in Slots : InFlight(q) => req[q].inst # i

\* A new request takes the first free slot (slots are interchangeable).
Takes(r) == Free(r) /\ \A q \in Slots : q < r => InFlight(q)

NewReq(op, i, c, body, ip) ==
  [IdleReq EXCEPT !.op = op, !.inst = i, !.client = c, !.body = body, !.staticIp = ip]

\* The handler returns: its locals are gone, the response stays in the slot.
Answer(rq, resp) ==
  [IdleReq EXCEPT !.op = rq.op, !.inst = rq.inst, !.client = rq.client, !.pc = "done", !.resp = resp]

\* UPDATE ... WHERE instance_id = ? touches the row only if it exists.
UpdateRow(table, i, row) == IF i \in DOMAIN table THEN [table EXCEPT ![i] = row] ELSE table

\* ---------------------------------------------------------------- initial state
Init ==
  /\ instances = <<>>
  /\ server_config = <<>>
  /\ setup_state = <<>>
  /\ clients = <<>>
  /\ connection_log = [i \in InstanceNames |-> <<>>]
  /\ pki = [i \in InstanceNames |-> EmptyPki]
  /\ files = [i \in InstanceNames |-> EmptyFiles]
  /\ host = [packages |-> FALSE, forwarding |-> FALSE, sysctlFile |-> FALSE,
             nat |-> <<>>, forward |-> <<>>, saved |-> <<>>, logDir |-> FALSE,
             units |-> [i \in InstanceNames |-> EmptyUnit]]
  /\ req = [r \in Slots |-> IdleReq]
  /\ now = 0
  /\ ops = 0

\* datetime('now') moves on between handler segments. MaxOps bounds the requests
\* and the ticks of a behaviour together.
Tick ==
  /\ now < MaxTime /\ ops + now < MaxOps
  /\ now' = now + 1
  /\ UNCHANGED <<instances, server_config, setup_state, clients, pki, files, host, req, ops, connection_log>>

\* ---------------------------------------------------------------- instances
\* The tables the transaction of create writes.
Tables(inst, conf, st) == [instances |-> inst, server_config |-> conf, setup_state |-> st]

Insert(tbl, i, row) == [n \in DOMAIN tbl \cup {i} |-> IF n = i THEN row ELSE tbl[n]]

\* The inserts that ran before the failure stay, as without BEGIN ... ROLLBACK.
createRowsNoRollback(tbls, i, at, t) ==
  LET a == [tbls EXCEPT !.instances = Insert(@, i, NewInstance(i))]
      b == [a EXCEPT !.server_config = Insert(@, i, [DefaultServerConfig EXCEPT !.updated_at = t])]
      c == [b EXCEPT !.setup_state = Insert(@, i, InitialSetupState)]
  IN CASE at = "insert_instance" -> tbls
       [] at = "insert_config" -> a
       [] at = "insert_state" -> b
       [] OTHER -> c

\* BEGIN; INSERT instances; INSERT server_config; INSERT setup_state; COMMIT, or
\* ROLLBACK when one of them throws.
createRows(tbls, i, at, t) ==
  LET a == [tbls EXCEPT !.instances = Insert(@, i, NewInstance(i))]
      b == [a EXCEPT !.server_config = Insert(@, i, [DefaultServerConfig EXCEPT !.updated_at = t])]
      c == [b EXCEPT !.setup_state = Insert(@, i, InitialSetupState)]
  IN IF at \in {"insert_instance", "insert_config", "insert_state"} THEN tbls ELSE c

\* mkdirSync(easyrsaDir), mkdirSync(ccdDir), both recursive: the directories of the
\* instance that exist once create has stopped at `at` before the catch block.
createDirs(dirs, at) ==
  CASE at = "mkdir_easyrsa" -> dirs
    [] at = "mkdir_ccd" -> dirs \cup {"home", "easy-rsa"}
    [] OTHER -> dirs \cup {"home", "easy-rsa", "ccd"}

\* catch: rmSync(easyrsaDir), rmSync(ccdDir), recursive and forced.
createCleanup(f) ==
  [f EXCEPT !.dirs = @ \ {"easy-rsa", "ccd"}, !.ccd = [c \in ClientNames |-> <<>>]]

\* POST /api/instances: conflict check, then InstanceService.create, which stops
\* at `at`.  The mkdirSync calls precede the try block.
CreateInstance(r, i, serial, at) ==
  LET rq == NewReq("create", i, "", NoBody, "NULL")
      inTry == at \in {"ok", "insert_instance", "insert_config", "insert_state"}
      old == Tables(instances, server_config, setup_state)
      tbls == IF inTry THEN createRows(old, i, at, now) ELSE old
  IN
  /\ Takes(r) /\ ops + now < MaxOps /\ (serial => Quiet(i))
  /\ ops' = ops + 1
  /\ IF i \in DOMAIN instances
       THEN /\ at = "ok"
            /\ req' = [req EXCEPT ![r] = Answer(rq, Resp(409, "ConflictError", NoText))]
            /\ UNCHANGED <<instances, server_config, setup_state, clients, pki, files, host>>
       ELSE /\ instances' = tbls.instances
            /\ server_config' = tbls.server_config
            /\ setup_state' = tbls.setup_state
            /\ clients' = IF at = "ok" THEN Insert(clients, i, <<>>) ELSE clients
            /\ files' = [files EXCEPT ![i] =
                          IF inTry /\ at # "ok"
                            THEN createCleanup([@ EXCEPT !.dirs = createDirs(@, at)])
                            ELSE [@ EXCEPT !.dirs = createDirs(@, at)]]
            /\ pki' = IF inTry /\ at # "ok" THEN [pki EXCEPT ![i] = EmptyPki] ELSE pki
            /\ host' = [host EXCEPT !.logDir = @ \/ inTry]
            /\ req' = [req EXCEPT ![r] =
                        Answer(rq, IF at = "ok" THEN Reply(201, "created")
                                   ELSE Resp(500, "InternalError", NoText))]
  /\ UNCHANGED <<now, connection_log>>

\* InstanceService.create called directly, as the wizard of the TUI does: there is no
\* conflict check in front of it, and under a name that exists the INSERT fails on
\* UNIQUE(name), after the mkdirSync calls and before the catch block's removals.
\* The caller's request rq goes on as `returned` when create returns, and ends with
\* the error thrown otherwise.
createBy(r, i, serial, at, rq, returned) ==
  LET inTry == at \in {"ok", "insert_instance", "insert_config", "insert_state"}
      old == Tables(instances, server_config, setup_state)
      tbls == IF inTry THEN createRows(old, i, at, now) ELSE old
  IN
  /\ Takes(r) /\ ops + now < MaxOps /\ (serial => Quiet(i))
  /\ i \in DOMAIN instances => at = "insert_instance"
  /\ ops' = ops + 1
  /\ instances' = tbls.instances
  /\ server_config' = tbls.server_config
  /\ setup_state' = tbls.setup_state
  /\ clients' = IF at = "ok" THEN Insert(clients, i, <<>>) ELSE clients
  /\ files' = [files EXCEPT ![i] =
                IF inTry /\ at # "ok"
                  THEN createCleanup([@ EXCEPT !.dirs = createDirs(@, at)])
                  ELSE [@ EXCEPT !.dirs = createDirs(@, at)]]
  /\ pki' = IF inTry /\ at # "ok" THEN [pki EXCEPT ![i] = EmptyPki] ELSE pki
  /\ host' = [host EXCEPT !.logDir = @ \/ inTry]
  /\ req' = [req EXCEPT ![r] = IF at = "ok" THEN returned ELSE Answer(rq, Resp(0, "Error", at))]
  /\ UNCHANGED <<now, connection_log>>

\* A caller that does nothing but create.
CreateCall(r, i, serial, at) ==
  LET rq == NewReq("create_call", i, "", NoBody, "NULL") IN
  createBy(r, i, serial, at, rq, Answer(rq, Reply(0, "returned")))

\* InstanceService.updateStatus.  Of the instances row only the status column is
\* kept: no handler reads the row's timestamps.
updateStatus(tbl, i, status) ==
  IF i \in DOMAIN tbl THEN [tbl EXCEPT ![i].status = status] ELSE tbl

\* ---------------------------------------------------------------- setup run
\* A line of the rendered configuration: the directive and its arguments.
Line(d, args) == [d |-> d, args |-> args]
Blank == Line("", <<>>)

RECURSIVE JoinPath(_)
\* The text of a path: its segments joined by "/".
JoinPath(p) == IF Len(p) = 1 THEN p[1] ELSE p[1] \o "/" \o JoinPath(Tail(p))

\* The subnet mask as stored: a dotted quad.
MaskText(mask) ==
  ToString(mask[1]) \o "." \o ToString(mask[2]) \o "." \o ToString(mask[3]) \o "."
    \o ToString(mask[4])

\* PKIService: `${easyrsaDir}/pki/<file>`
PkiPath(i, file) == JoinPath(derivePaths(i).easyrsaDir \o <<"pki">> \o file)

\* if (devType === "tun") server <subnet> <mask> else server-bridge
serverLineAlwaysSubnet(row) == Line("server", <<row.subnet, MaskText(row.subnet_mask)>>)

serverLine(row) ==
  IF row.dev_type = "tun" THEN Line("server", <<row.subnet, MaskText(row.subnet_mask)>>)
  ELSE Line("server-bridge", <<>>)

RECURSIVE dnsPushLines(_)
\* for (const d of dns) push "dhcp-option DNS <d>"
dnsPushLines(dns) ==
  IF dns = <<>> THEN <<>>
  ELSE <<Line("push", <<"dhcp-option", "DNS", Head(dns)>>)>> \o dnsPushLines(Tail(dns))

\* The lines that are pushed only under a condition.
Optional(cond, lines) == IF cond THEN lines ELSE <<>>

\* The rendering carries the time it was made.
generateServerConfigStamped(row, i) ==
  <<Line("#", <<"generated", ToString(now)>>), Line("port", <<ToString(row.port)>>)>>

\* generateServerConfig: lines.join("\n") + "\n", line by line.
generateServerConfig(row, i) ==
  << Line("port", <<ToString(row.port)>>),
     Line("proto", <<row.protocol>>),
     Line("dev", <<row.dev_type>>),
     Blank,
     Line("ca", <<PkiPath(i, <<"ca.crt">>)>>),
     Line("cert", <<PkiPath(i, <<"issued", "server.crt">>)>>),
     Line("key", <<PkiPath(i, <<"private", "server.key">>)>>),
     Line("dh", <<PkiPath(i, <<"dh.pem">>)>>),
     Line("crl-verify", <<PkiPath(i, <<"crl.pem">>)>>),
     Blank,
     serverLine(row),
     Blank,
     Line("ifconfig-pool-persist", <<"/var/log/openvpn/" \o i \o "-ipp.txt">>),
     Line("client-config-dir", <<JoinPath(derivePaths(i).ccdDir)>>),
     Blank >>
  \o dnsPushLines(row.dns)
  \o << Line("push", <<"redirect-gateway", "def1", "bypass-dhcp">>), Blank >>
  \o Optional(row.client_to_client # 0, <<Line("client-to-client", <<>>)>>)
  \o << Line("keepalive", <<row.keepalive>>), Blank >>
  \o Optional(row.tls_auth # 0, <<Line("tls-auth", <<PkiPath(i, <<"ta.key">>), "0">>)>>)
  \o << Line("cipher", <<row.cipher>>), Line("auth", <<row.auth>>), Blank >>
  \o Optional(row.compress # "", <<Line("compress", <<row.compress>>),
                                   Line("push", <<"compress", row.compress>>)>>)
  \o << Line("max-clients", <<ToString(row.max_clients)>>), Blank,
        Line("user", <<"nobody">>), Line("group", <<"nogroup">>), Blank,
        Line("persist-key", <<>>), Line("persist-tun", <<>>), Blank,
        Line("status", <<JoinPath(derivePaths(i).statusFile), "10">>),
        Line("log-append", <<JoinPath(derivePaths(i).logFile)>>),
        Line("verb", <<"3">>), Line("mute", <<"20">>), Blank,
        Line("explicit-exit-notify", <<"1">>) >>

\* if (state?.completed) return 409
SetupGuardOpen(st) == FALSE
SetupGuard(st) == st.completed

\* UPDATE setup_state SET started_at = datetime('now'), step = 'none', error = NULL
ResetStateKeepError(st, t) == [st EXCEPT !.started_at = t, !.step = "none"]
ResetState(st, t) == [st EXCEPT !.started_at = t, !.step = "none", !.error = NoText]

\* UPDATE setup_state SET step = '<step>', written before the step's first command
EnterStep(st, c) == [st EXCEPT !.step = StepOfCmd(c)]

\* UPDATE setup_state SET completed = 1, completed_at = datetime('now')
CompleteStateNoStamp(st, t) == [st EXCEPT !.completed = TRUE]
CompleteState(st, t) == [st EXCEPT !.completed = TRUE, !.completed_at = t]

\* catch: UPDATE setup_state SET error = ?
CatchStateCompleting(st, msg) == [st EXCEPT !.error = msg, !.completed = TRUE]
CatchState(st, msg) == [st EXCEPT !.error = msg]

\* UPDATE server_config SET hostname = ?, ..., pki_initialized = 1, updated_at = datetime('now')
ConfigureRow(row, body, t) ==
  [row EXCEPT !.hostname = body.hostname, !.protocol = body.protocol, !.port = body.port,
              !.dev_type = body.devType, !.subnet = body.subnet,
              !.subnet_mask = body.subnetMask, !.dns = body.dns, !.cipher = body.cipher,
              !.pki_initialized = 1, !.updated_at = t]

\* The command awaited after command c succeeded ("end" after the last one).
NextCmd(c) == IF CmdIndex(c) = Len(SetupCmds) THEN "end" ELSE SetupCmds[CmdIndex(c) + 1]

\* The rule an iptables -C / -A pair of the run is about.
RuleOf(rq) ==
  CASE rq.pc \in {"nat_check", "nat_add"} -> NatRule(rq.body.subnet, rq.body.subnetMask, rq.iface)
    [] rq.pc \in {"fwdout_check", "fwdout_add"} -> FwdOutRule(rq.inst, rq.iface)
    [] OTHER -> FwdInRule(rq.inst, rq.iface)

ChainOf(rq) == IF rq.pc \in {"nat_check", "nat_add"} THEN host.nat ELSE host.forward

\* The guard with a per-instance lock: a request is refused while a run is in flight.
SetupBeginLocked(r, i, body, serial) ==
  /\ Takes(r) /\ ops + now < MaxOps /\ (serial => Quiet(i))
  /\ ops' = ops + 1
  /\ LET rq == NewReq("setup", i, "", body, "NULL") IN
     IF i \notin DOMAIN instances
       THEN /\ req' = [req EXCEPT ![r] = Answer(rq, Resp(404, "NotFoundError", NoText))]
            /\ UNCHANGED setup_state
       ELSE IF SetupGuard(setup_state[i]) \/ ~Quiet(i)
         THEN /\ req' = [req EXCEPT ![r] = Answer(rq, Resp(409, "Setup already completed for this instance", NoText))]
              /\ UNCHANGED setup_state
         ELSE /\ setup_state' = [setup_state EXCEPT
                                   ![i] = EnterStep(ResetState(@, now), SetupCmds[1])]
              /\ req' = [req EXCEPT ![r] = [rq EXCEPT !.pc = SetupCmds[1]]]
  /\ UNCHANGED <<instances, server_config, clients, pki, files, host, now, connection_log>>

\* POST /api/instances/:name/setup, up to the first await.
SetupBegin(r, i, body, serial) ==
  /\ Takes(r) /\ ops + now < MaxOps /\ (serial => Quiet(i))
  /\ ops' = ops + 1
  /\ LET rq == NewReq("setup", i, "", body, "NULL") IN
     IF i \notin DOMAIN instances
       THEN /\ req' = [req EXCEPT ![r] = Answer(rq, Resp(404, "NotFoundError", NoText))]
            /\ UNCHANGED setup_state
       ELSE IF SetupGuard(setup_state[i])
         THEN /\ req' = [req EXCEPT ![r] = Answer(rq, Resp(409, "Setup already completed for this instance", NoText))]
              /\ UNCHANGED setup_state
         ELSE /\ setup_state' = [setup_state EXCEPT
                                   ![i] = EnterStep(ResetState(@, now), SetupCmds[1])]
              /\ req' = [req EXCEPT ![r] = [rq EXCEPT !.pc = SetupCmds[1]]]
  /\ UNCHANGED <<instances, server_config, clients, pki, files, host, now, connection_log>>

\* The effect of a setup command that exits with 0.
PkiAfter(p, c) ==
  CASE c = "init_pki" -> [p EXCEPT !.arts = @ \cup {"pki"}]
    [] c = "build_ca" -> [p EXCEPT !.arts = @ \cup {"ca"}]
    [] c = "server_cert" -> [p EXCEPT !.arts = @ \cup {"server"}]
    [] c = "gen_dh" -> [p EXCEPT !.arts = @ \cup {"dh"}]
    [] c = "gen_ta" -> [p EXCEPT !.arts = @ \cup {"ta"}]
    [] c = "gen_crl" -> [p EXCEPT !.arts = @ \cup {"crl"},
                                  !.crl = {n \in ClientNames : p.cert[n] = "revoked"}]
    [] OTHER -> p

HostAfter(h, rq) ==
  CASE rq.pc = "apt_install" -> [h EXCEPT !.packages = TRUE]
    [] rq.pc = "sysctl" -> [h EXCEPT !.forwarding = TRUE]
    [] rq.pc = "sysctl_file" -> [h EXCEPT !.sysctlFile = TRUE]
    [] rq.pc = "nat_add" -> [h EXCEPT !.nat = Append(@, RuleOf(rq))]
    [] rq.pc \in {"fwdout_add", "fwdin_add"} -> [h EXCEPT !.forward = Append(@, RuleOf(rq))]
    [] rq.pc = "rules_file" -> [h EXCEPT !.saved = rq.saved]
    [] rq.pc = "svc_enable" -> [h EXCEPT !.units[rq.inst].enabled = TRUE]
    [] rq.pc = "svc_start" -> [h EXCEPT !.units[rq.inst].active = TRUE]
    [] OTHER -> h

\* A command of the run exits with 0: its effect, then the handler up to the next await.
SetupOk(r) ==
  LET rq == req[r]
      i == rq.inst
      c == rq.pc
      n == NextCmd(c)
  IN
  /\ rq.op = "setup" /\ InFlight(r) /\ c \notin CheckCmds
  /\ pki' = [pki EXCEPT ![i] = PkiAfter(@, c)]
  /\ host' = HostAfter(host, rq)
  /\ files' = IF c = "write_conf" THEN [files EXCEPT ![i].conf = rq.conf] ELSE files
  /\ LET row == IF i \in DOMAIN server_config THEN ConfigureRow(server_config[i], rq.body, now)
                ELSE DefaultServerConfig
     IN
     /\ server_config' = IF n = "write_conf" THEN UpdateRow(server_config, i, row) ELSE server_config
     /\ \E iface \in Ifaces :
          req' = [req EXCEPT ![r] =
                   IF n = "end"
                     THEN Answer(rq, Reply(200, "setup completed"))
                     ELSE [rq EXCEPT !.pc = n,
                                     !.conf = IF n = "write_conf" THEN <<generateServerConfig(row, i)>> ELSE @,
                                     !.iface = IF c = "ip_route" THEN iface ELSE @,
                                     !.saved = IF c = "ipt_save" THEN <<host.nat, host.forward>> ELSE @]]
  /\ IF n = "end"
       THEN /\ setup_state' = IF i \in DOMAIN setup_state
                               THEN [setup_state EXCEPT ![i] = CompleteState(@, now)]
                               ELSE setup_state
            /\ instances' = updateStatus(instances, i, "active")
       ELSE /\ setup_state' = IF i \in DOMAIN setup_state /\ StepOfCmd(n) # StepOfCmd(c)
                               THEN [setup_state EXCEPT ![i] = EnterStep(@, n)]
                               ELSE setup_state
            /\ UNCHANGED instances
  /\ UNCHANGED <<clients, now, ops, connection_log>>

\* iptables -A issued without looking at the result of iptables -C.
SetupCheckAlwaysAppends(r) ==
  LET rq == req[r] IN
  /\ rq.op = "setup" /\ InFlight(r) /\ rq.pc \in CheckCmds
  /\ req' = [req EXCEPT ![r].pc = NextCmd(rq.pc)]
  /\ UNCHANGED <<instances, server_config, setup_state, clients, pki, files, host, now, ops, connection_log>>

\* iptables -C: exits with 0 exactly when the rule is in the chain; otherwise the
\* .catch() issues iptables -A.
SetupCheck(r) ==
  LET rq == req[r] IN
  /\ rq.op = "setup" /\ InFlight(r) /\ rq.pc \in CheckCmds
  /\ req' = [req EXCEPT ![r].pc = IF Count(ChainOf(rq), RuleOf(rq)) > 0
                                    THEN NextCmd(NextCmd(rq.pc)) ELSE NextCmd(rq.pc)]
  /\ UNCHANGED <<instances, server_config, setup_state, clients, pki, files, host, now, ops, connection_log>>

\* A catch block that also takes back the authority-initialized flag.
SetupFailRollback(r) ==
  LET rq == req[r]
      i == rq.inst
      message == ShellMessage(rq.pc)
  IN
  /\ rq.op = "setup" /\ InFlight(r) /\ rq.pc \notin CheckCmds
  /\ setup_state' = IF i \in DOMAIN setup_state
                      THEN [setup_state EXCEPT ![i] = CatchState(@, message)]
                      ELSE setup_state
  /\ instances' = updateStatus(instances, i, "error")
  /\ server_config' = IF i \in DOMAIN server_config
                       THEN [server_config EXCEPT ![i].pki_initialized = 0]
                       ELSE server_config
  /\ req' = [req EXCEPT ![r] = Answer(rq, Resp(500, "ServiceError", message))]
  /\ UNCHANGED <<clients, pki, files, host, now, ops, connection_log>>

\* A command of the run exits with non-zero: the catch block.
SetupFail(r) ==
  LET rq == req[r]
      i == rq.inst
      message == ShellMessage(rq.pc)
  IN
  /\ rq.op = "setup" /\ InFlight(r) /\ rq.pc \notin CheckCmds
  /\ setup_state' = IF i \in DOMAIN setup_state
                      THEN [setup_state EXCEPT ![i] = CatchState(@, message)]
                      ELSE setup_state
  /\ instances' = updateStatus(instances, i, "error")
  /\ req' = [req EXCEPT ![r] = Answer(rq, Resp(500, "ServiceError", message))]
  /\ UNCHANGED <<server_config, clients, pki, files, host, now, ops, connection_log>>

\* ---------------------------------------------------------------- setup wizard
\* SetupWizard.runSetup of the TUI: create, then the commands of a setup run from
\* init-pki on (no package installation), with no write of setup_state before the
\* last one and none in its catch block.
WizardFirstCmd == "init_pki"

\* UPDATE server_config SET hostname = ?, protocol = ?, port = ?, dev_type = 'tun', ...
WizardConfigureRow(row, body, t) == [ConfigureRow(row, body, t) EXCEPT !.dev_type = "tun"]

\* The completion without the step.
WizardCompleteKeepStep(st, t) == [st EXCEPT !.completed = TRUE, !.completed_at = t]

\* UPDATE setup_state SET completed = 1, step = 'running', completed_at = datetime('now')
WizardComplete(st, t) ==
  [st EXCEPT !.completed = TRUE, !.step = "running", !.completed_at = t]

\* runSetup up to its first awaited command: create(form.name) and initPKI's call.
WizardBegin(r, i, body, serial, at) ==
  LET rq == NewReq("wizard", i, "", body, "NULL") IN
  createBy(r, i, serial, at, rq, [rq EXCEPT !.pc = WizardFirstCmd])

\* A command of the wizard exits with 0: its effect, then runSetup up to the next await.
WizardOk(r) ==
  LET rq == req[r]
      i == rq.inst
      c == rq.pc
      n == NextCmd(c)
  IN
  /\ rq.op = "wizard" /\ InFlight(r) /\ c \notin CheckCmds
  /\ pki' = [pki EXCEPT ![i] = PkiAfter(@, c)]
  /\ host' = HostAfter(host, rq)
  /\ files' = IF c = "write_conf" THEN [files EXCEPT ![i].conf = rq.conf] ELSE files
  /\ LET row == IF i \in DOMAIN server_config
                  THEN WizardConfigureRow(server_config[i], rq.body, now)
                ELSE DefaultServerConfig
     IN
     /\ server_config' = IF n = "write_conf" THEN UpdateRow(server_config, i, row) ELSE server_config
     /\ \E iface \in Ifaces :
          req' = [req EXCEPT ![r] =
                   IF n = "end"
                     THEN Answer(rq, Reply(0, "done"))
                     ELSE [rq EXCEPT !.pc = n,
                                     !.conf = IF n = "write_conf" THEN <<generateServerConfig(row, i)>> ELSE @,
                                     !.iface = IF c = "ip_route" THEN iface ELSE @,
                                     !.saved = IF c = "ipt_save" THEN <<host.nat, host.forward>> ELSE @]]
  /\ IF n = "end"
       THEN /\ instances' = updateStatus(instances, i, "active")
            /\ setup_state' = IF i \in DOMAIN setup_state
                               THEN [setup_state EXCEPT ![i] = WizardComplete(@, now)]
                               ELSE setup_state
       ELSE UNCHANGED <<instances, setup_state>>
  /\ UNCHANGED <<clients, now, ops, connection_log>>

\* iptables -C of setupNAT, as in a setup run.
WizardCheck(r) ==
  LET rq == req[r] IN
  /\ rq.op = "wizard" /\ InFlight(r) /\ rq.pc \in CheckCmds
  /\ req' = [req EXCEPT ![r].pc = IF Count(ChainOf(rq), RuleOf(rq)) > 0
                                    THEN NextCmd(NextCmd(rq.pc)) ELSE NextCmd(rq.pc)]
  /\ UNCHANGED <<instances, server_config, setup_state, clients, pki, files, host, now, ops, connection_log>>

\* A command of the wizard exits with non-zero: catch (err) { setError(err.message) },
\* which writes nothing.
WizardFail(r) ==
  LET rq == req[r] IN
  /\ rq.op = "wizard" /\ InFlight(r) /\ rq.pc \notin CheckCmds
  /\ req' = [req EXCEPT ![r] = Answer(rq, Resp(0, "Error", ShellMessage(rq.pc)))]
  /\ UNCHANGED <<instances, server_config, setup_state, clients, pki, files, host, now, ops, connection_log>>

\* ---------------------------------------------------------------- clients
NewClient(c, ip, t) ==
  [status |-> "active", cert_cn |-> c, static_ip |-> ip, created_at |-> t,
   revoked_at |-> NULL, expires_at |-> NULL]

HasClient(i, c) == i \in DOMAIN clients /\ c \in DOMAIN clients[i]

\* UPDATE clients SET ... WHERE instance_id = ? AND name = ?
UpdateClient(tbl, i, c, row) ==
  IF i \in DOMAIN tbl /\ c \in DOMAIN tbl[i] THEN [tbl EXCEPT ![i][c] = row] ELSE tbl

\* if (client.status === "revoked") return "Client already revoked"
AlreadyRevokedNever(row) == FALSE
AlreadyRevoked(row) == row.status = "revoked"

\* UPDATE clients SET status = 'revoked', revoked_at = datetime('now')
RevokeRowExpiring(row, t) == [row EXCEPT !.status = "expired", !.revoked_at = t]
RevokeRow(row, t) == [row EXCEPT !.status = "revoked", !.revoked_at = t]

\* UPDATE clients SET status = 'active', revoked_at = NULL, created_at = datetime('now')
RenewRow(row, t) == [row EXCEPT !.status = "active", !.revoked_at = NULL, !.created_at = t]

\* easyrsa revoke <name> / gen-crl / build-client-full <name>, exit code 0
CertRevoked(p, c) == [p EXCEPT !.cert[c] = "revoked"]
\* The list is written again with the entries it had.
CrlNotRegenerated(p) == [p EXCEPT !.arts = @ \cup {"crl"}]
CrlGenerated(p) == [p EXCEPT !.arts = @ \cup {"crl"},
                             !.crl = {n \in ClientNames : p.cert[n] = "revoked"}]
CertIssued(p, c) == [p EXCEPT !.cert[c] = "valid"]

\* The override binds the address with the mask of a fresh server_config row.
ccdOverrideDefaultMask(ip, mask) == <<[ip |-> ip, mask |-> DefaultServerConfig.subnet_mask]>>

\* `ifconfig-push ${body.staticIp} ${serverConfig.subnet_mask}\n`: the one line of
\* the file ${instance.ccd_dir}/${body.name}.
ccdOverride(ip, mask) == <<[ip |-> ip, mask |-> mask]>>

\* POST /api/instances/:name/clients, up to the first await.
IssueBegin(r, i, c, ip, serial) ==
  /\ Takes(r) /\ ops + now < MaxOps /\ (serial => Quiet(i))
  /\ ops' = ops + 1
  /\ LET rq == NewReq("issue", i, c, NoBody, ip) IN
     req' = [req EXCEPT ![r] =
       IF i \notin DOMAIN instances THEN Answer(rq, Resp(404, "NotFoundError", NoText))
       ELSE IF HasClient(i, c) THEN Answer(rq, Resp(409, "ConflictError", NoText))
       ELSE [rq EXCEPT !.pc = "c_build"]]
  /\ UNCHANGED <<instances, server_config, setup_state, clients, pki, files, host, now, connection_log>>

\* build-client-full succeeded: INSERT the row, then the override if an address was given;
\* the override file was written: answer 201.
IssueOk(r) ==
  LET rq == req[r]
      i == rq.inst
      c == rq.client
  IN
  /\ rq.op = "issue" /\ InFlight(r)
  /\ IF rq.pc = "c_build"
       THEN /\ pki' = [pki EXCEPT ![i] = CertIssued(@, c)]
            /\ IF i \notin DOMAIN clients \/ HasClient(i, c)
                 THEN \* FOREIGN KEY / UNIQUE(instance_id, name) constraint failure
                      /\ req' = [req EXCEPT ![r] = Answer(rq, Resp(500, "InternalError", NoText))]
                      /\ UNCHANGED clients
                 ELSE /\ clients' = [clients EXCEPT ![i] =
                                       [n \in DOMAIN clients[i] \cup {c} |->
                                          IF n = c THEN NewClient(c, rq.staticIp, now)
                                          ELSE clients[i][n]]]
                      /\ req' = [req EXCEPT ![r] =
                                  IF rq.staticIp # "NULL"
                                    THEN [rq EXCEPT !.pc = "c_ccd",
                                            !.conf = ccdOverride(rq.staticIp,
                                                                 server_config[i].subnet_mask)]
                                    ELSE Answer(rq, Reply(201, "created"))]
            /\ UNCHANGED files
       ELSE /\ files' = [files EXCEPT ![i].ccd[c] = rq.conf]
            /\ req' = [req EXCEPT ![r] = Answer(rq, Reply(201, "created"))]
            /\ UNCHANGED <<pki, clients>>
  /\ UNCHANGED <<instances, server_config, setup_state, host, now, ops, connection_log>>

\* build-client-full exits with non-zero (ShellError), or the override write throws.
IssueFail(r) ==
  LET rq == req[r] IN
  /\ rq.op = "issue" /\ InFlight(r)
  /\ req' = [req EXCEPT ![r] =
              IF rq.pc = "c_build" THEN Answer(rq, Resp(500, "ShellError", ShellMessage(rq.pc)))
              ELSE Answer(rq, Resp(500, "InternalError", NoText))]
  /\ UNCHANGED <<instances, server_config, setup_state, clients, pki, files, host, now, ops, connection_log>>

\* DELETE /api/instances/:name/clients/:clientName, up to the first await.
RevokeBegin(r, i, c, serial) ==
  /\ Takes(r) /\ ops + now < MaxOps /\ (serial => Quiet(i))
  /\ ops' = ops + 1
  /\ LET rq == NewReq("revoke", i, c, NoBody, "NULL") IN
     req' = [req EXCEPT ![r] =
       IF i \notin DOMAIN instances \/ ~HasClient(i, c)
         THEN Answer(rq, Resp(404, "NotFoundError", NoText))
       ELSE IF AlreadyRevoked(clients[i][c]) THEN Answer(rq, Reply(200, "Client already revoked"))
       ELSE [rq EXCEPT !.pc = "revoke"]]
  /\ UNCHANGED <<instances, server_config, setup_state, clients, pki, files, host, now, connection_log>>

\* PKIService.revokeCert: easyrsa revoke, then gen-crl; then the row update and the
\* best-effort restart.
RevokeOk(r) ==
  LET rq == req[r]
      i == rq.inst
      c == rq.client
  IN
  /\ rq.op = "revoke" /\ InFlight(r)
  /\ CASE rq.pc = "revoke" ->
            /\ pki' = [pki EXCEPT ![i] = CertRevoked(@, c)]
            /\ req' = [req EXCEPT ![r].pc = "revoke_crl"]
            /\ UNCHANGED <<clients, host>>
       [] rq.pc = "revoke_crl" ->
            /\ pki' = [pki EXCEPT ![i] = CrlGenerated(@)]
            /\ clients' = IF HasClient(i, c)
                            THEN UpdateClient(clients, i, c, RevokeRow(clients[i][c], now))
                            ELSE clients
            /\ req' = [req EXCEPT ![r].pc = "restart"]
            /\ UNCHANGED host
       [] OTHER ->
            /\ host' = [host EXCEPT !.units[i].active = TRUE]
            /\ req' = [req EXCEPT ![r] = Answer(rq, Reply(200, "revoked"))]
            /\ UNCHANGED <<pki, clients>>
  /\ UNCHANGED <<instances, server_config, setup_state, files, now, ops, connection_log>>

\* Every failing command of the revocation, the restart included, is thrown.
RevokeFailSurfacing(r) ==
  LET rq == req[r] IN
  /\ rq.op = "revoke" /\ InFlight(r)
  /\ req' = [req EXCEPT ![r] = Answer(rq, Resp(500, "ShellError", ShellMessage(rq.pc)))]
  /\ UNCHANGED <<instances, server_config, setup_state, clients, pki, files, host, now, ops, connection_log>>

\* A command of the revocation exits with non-zero: revoke and gen-crl throw the
\* ShellError out of the handler; a failed restart is only logged.
RevokeFail(r) ==
  LET rq == req[r] IN
  /\ rq.op = "revoke" /\ InFlight(r)
  /\ req' = [req EXCEPT ![r] =
              IF rq.pc = "restart" THEN Answer(rq, Reply(200, "revoked"))
              ELSE Answer(rq, Resp(500, "ShellError", ShellMessage(rq.pc)))]
  /\ UNCHANGED <<instances, server_config, setup_state, clients, pki, files, host, now, ops, connection_log>>

\* POST /api/instances/:name/clients/:clientName/renew, up to the first await.
RenewBegin(r, i, c, serial) ==
  /\ Takes(r) /\ ops + now < MaxOps /\ (serial => Quiet(i))
  /\ ops' = ops + 1
  /\ LET rq == NewReq("renew", i, c, NoBody, "NULL") IN
     req' = [req EXCEPT ![r] =
       IF i \notin DOMAIN instances \/ ~HasClient(i, c)
         THEN Answer(rq, Resp(404, "NotFoundError", NoText))
       ELSE [rq EXCEPT !.pc = "rn_revoke"]]
  /\ UNCHANGED <<instances, server_config, setup_state, clients, pki, files, host, now, connection_log>>

RenewOk(r) ==
  LET rq == req[r]
      i == rq.inst
      c == rq.client
  IN
  /\ rq.op = "renew" /\ InFlight(r)
  /\ CASE rq.pc = "rn_revoke" ->
            /\ pki' = [pki EXCEPT ![i] = CertRevoked(@, c)]
            /\ req' = [req EXCEPT ![r].pc = "rn_crl"]
            /\ UNCHANGED clients
       [] rq.pc = "rn_crl" ->
            /\ pki' = [pki EXCEPT ![i] = CrlGenerated(@)]
            /\ req' = [req EXCEPT ![r].pc = "rn_build"]
            /\ UNCHANGED clients
       [] OTHER ->
            /\ pki' = [pki EXCEPT ![i] = CertIssued(@, c)]
            /\ clients' = IF HasClient(i, c)
                            THEN UpdateClient(clients, i, c, RenewRow(clients[i][c], now))
                            ELSE clients
            /\ req' = [req EXCEPT ![r] = Answer(rq, Reply(200, "renewed"))]
  /\ UNCHANGED <<instances, server_config, setup_state, files, host, now, ops, connection_log>>

\* revokeCert failing is caught and logged; build-client-full failing is thrown.
RenewFail(r) ==
  LET rq == req[r] IN
  /\ rq.op = "renew" /\ InFlight(r)
  /\ req' = [req EXCEPT ![r] =
              IF rq.pc \in {"rn_revoke", "rn_crl"} THEN [rq EXCEPT !.pc = "rn_build"]
              ELSE Answer(rq, Resp(500, "ShellError", ShellMessage(rq.pc)))]
  /\ UNCHANGED <<instances, server_config, setup_state, clients, pki, files, host, now, ops, connection_log>>

\* ---------------------------------------------------------------- server config
\* Bodies of PUT /server/config: any subset of the fields of the schema.
NoUpdate == <<>>
PortUpdate == [port |-> 1195]
Updates ==
  {NoUpdate, PortUpdate,
   [hostname |-> "new-vpn.test.com", maxClients |-> 50],
   [devType |-> "tap", tlsAuth |-> FALSE, clientToClient |-> TRUE, dns |-> <<"9.9.9.9">>]}

\* The column a field of the body is written to.
UpdateColumn(k) ==
  CASE k = "devType" -> "dev_type"
    [] k = "subnetMask" -> "subnet_mask"
    [] k = "tlsAuth" -> "tls_auth"
    [] k = "clientToClient" -> "client_to_client"
    [] k = "maxClients" -> "max_clients"
    [] OTHER -> k

\* values.push(body.tlsAuth ? 1 : 0), and likewise clientToClient; the others as given.
ColumnValue(k, v) == IF k \in {"tlsAuth", "clientToClient"} THEN (IF v THEN 1 ELSE 0) ELSE v

\* Every column is written: the fields of the body, defaults for the others.
updateServerConfigWholeRow(row, body, t) ==
  [col \in DOMAIN row |->
     IF \E k \in DOMAIN body : UpdateColumn(k) = col
       THEN LET k == CHOOSE k \in DOMAIN body : UpdateColumn(k) = col IN ColumnValue(k, body[k])
     ELSE IF col = "updated_at" THEN t
     ELSE DefaultServerConfig[col]]

\* PUT /api/instances/:name/server/config: one "column = ?" per field of the body,
\* and updated_at with them; no UPDATE at all for a body without fields.
updateServerConfig(row, body, t) ==
  IF DOMAIN body = {} THEN row
  ELSE [col \in DOMAIN row |->
          IF \E k \in DOMAIN body : UpdateColumn(k) = col
            THEN LET k == CHOOSE k \in DOMAIN body : UpdateColumn(k) = col
                 IN ColumnValue(k, body[k])
          ELSE IF col = "updated_at" THEN t
          ELSE row[col]]

\* Up to the first await: the row update, then writeServerConfig renders the file.
ConfigBegin(r, i, upd, serial) ==
  LET rq == [NewReq("config", i, "", NoBody, "NULL") EXCEPT !.row = upd] IN
  /\ Takes(r) /\ ops + now < MaxOps /\ (serial => Quiet(i))
  /\ ops' = ops + 1
  /\ IF i \notin DOMAIN instances
       THEN /\ req' = [req EXCEPT ![r] = Answer(rq, Resp(404, "NotFoundError", NoText))]
            /\ UNCHANGED server_config
       ELSE LET row == updateServerConfig(server_config[i], upd, now) IN
            /\ server_config' = [server_config EXCEPT ![i] = row]
            /\ req' = [req EXCEPT ![r] = [rq EXCEPT !.pc = "cfg_write",
                                                    !.conf = <<generateServerConfig(row, i)>>]]
  /\ UNCHANGED <<instances, setup_state, clients, connection_log, pki, files, host, now>>

\* SELECT * FROM server_config WHERE instance_id = ?, answered as JSON with 200.
ConfigAnswer(rq) ==
  [Answer(rq, Reply(200, "config")) EXCEPT
     !.row = IF rq.inst \in DOMAIN server_config THEN server_config[rq.inst] ELSE <<>>]

\* Bun.write succeeded, then systemctl restart succeeded.
ConfigOk(r) ==
  LET rq == req[r]
      i == rq.inst
  IN
  /\ rq.op = "config" /\ InFlight(r)
  /\ IF rq.pc = "cfg_write"
       THEN /\ files' = [files EXCEPT ![i].conf = rq.conf]
            /\ req' = [req EXCEPT ![r].pc = "cfg_restart"]
            /\ UNCHANGED host
       ELSE /\ host' = [host EXCEPT !.units[i].active = TRUE]
            /\ req' = [req EXCEPT ![r] = ConfigAnswer(rq)]
            /\ UNCHANGED files
  /\ UNCHANGED <<instances, server_config, setup_state, clients, connection_log, pki, now, ops>>

\* A failed write is thrown; a failed restart is only logged.
ConfigFail(r) ==
  LET rq == req[r] IN
  /\ rq.op = "config" /\ InFlight(r)
  /\ req' = [req EXCEPT ![r] =
              IF rq.pc = "cfg_write" THEN Answer(rq, Resp(500, "InternalError", NoText))
              ELSE ConfigAnswer(rq)]
  /\ UNCHANGED <<instances, server_config, setup_state, clients, connection_log, pki, files,
                 host, now, ops>>

\* ---------------------------------------------------------------- pushed routes
RouteLists == {<<>>, <<[network |-> "192.168.1.0", netmask |-> "255.255.255.0"]>>}

IsRoutePush(line) == line.d = "push" /\ line.args[1] = "route"

RECURSIVE trimEnd(_)
\* content.trimEnd(): the text without the blank lines at its end.
trimEnd(content) ==
  IF content # <<>> /\ content[Len(content)] = Blank
    THEN trimEnd(SubSeq(content, 1, Len(content) - 1))
    ELSE content

\* The config text without its push "route ..." lines and with one such line per route
\* at its end.
updateRoutes(content, routes) ==
  LET kept == SelectSeq(content, LAMBDA line : ~IsRoutePush(line)) IN
  IF routes = <<>> THEN kept
  ELSE trimEnd(kept)
         \o [k \in 1..Len(routes) |->
               Line("push", <<"route", routes[k].network, routes[k].netmask>>)]

\* GET /api/instances/:name/network/routes: one route per push "route <network>
\* <netmask>" of the config file, in the order of the file; none without a file.
getRoutes(f) ==
  IF f.conf = <<>> THEN <<>>
  ELSE LET pushes == SelectSeq(f.conf[1], IsRoutePush) IN
       [k \in 1..Len(pushes) |-> [network |-> pushes[k].args[2], netmask |-> pushes[k].args[3]]]

\* return c.json({ success: true, routes })
RoutesAnswer(rq) == [Answer(rq, Reply(200, "routes")) EXCEPT !.routes = rq.routes]

\* PUT /api/instances/:name/network/routes, up to the write of the config file (or
\* to the restart when there is no config file).
RoutesBegin(r, i, routes, serial) ==
  LET rq == [NewReq("routes", i, "", NoBody, "NULL") EXCEPT !.routes = routes] IN
  /\ Takes(r) /\ ops + now < MaxOps /\ (serial => Quiet(i))
  /\ ops' = ops + 1
  /\ req' = [req EXCEPT ![r] =
               IF i \notin DOMAIN instances
                 THEN Answer(rq, Resp(404, "NotFoundError", NoText))
               ELSE IF files[i].conf = <<>> THEN [rq EXCEPT !.pc = "rt_restart"]
               ELSE [rq EXCEPT !.pc = "rt_write",
                               !.conf = <<updateRoutes(files[i].conf[1], routes)>>]]
  /\ UNCHANGED <<instances, server_config, setup_state, clients, connection_log, pki, files,
                 host, now>>

\* Bun.write succeeded, then systemctl restart succeeded.
RoutesOk(r) ==
  LET rq == req[r]
      i == rq.inst
  IN
  /\ rq.op = "routes" /\ InFlight(r)
  /\ IF rq.pc = "rt_write"
       THEN /\ files' = [files EXCEPT ![i].conf = rq.conf]
            /\ req' = [req EXCEPT ![r].pc = "rt_restart"]
            /\ UNCHANGED host
       ELSE /\ host' = [host EXCEPT !.units[i].active = TRUE]
            /\ req' = [req EXCEPT ![r] = RoutesAnswer(rq)]
            /\ UNCHANGED files
  /\ UNCHANGED <<instances, server_config, setup_state, clients, connection_log, pki, now, ops>>

\* A failed write is thrown; a failed restart is only logged.
RoutesFail(r) ==
  LET rq == req[r] IN
  /\ rq.op = "routes" /\ InFlight(r)
  /\ req' = [req EXCEPT ![r] =
              IF rq.pc = "rt_write" THEN Answer(rq, Resp(500, "InternalError", NoText))
              ELSE RoutesAnswer(rq)]
  /\ UNCHANGED <<instances, server_config, setup_state, clients, connection_log, pki, files,
                 host, now, ops>>

\* ---------------------------------------------------------------- connection history
\* A status feed is the text of the status file: a sequence of newline-terminated
\* lines, each the sequence of its comma-separated fields. NoFile: no such file.
NoFile == [exists |-> FALSE, text |-> <<>>]
File(text) == [exists |-> TRUE, text |-> text]

\* The first line of the older form, which has no HEADER lines.
TitleLine == <<"OpenVPN CLIENT LIST">>

ClientsHeader == <<"HEADER", "CLIENT_LIST", "Common Name", "Real Address">>
RoutingHeader == <<"HEADER", "ROUTING_TABLE", "Virtual Address", "Common Name">>
EndLine == <<"END">>
ByteCounts == {"100"}

\* CLIENT_LIST,CN,Real Address,Virtual Address,Virtual IPv6 Address,Bytes Received,
\* Bytes Sent,Connected Since
MarkedRecord(c, bytes) ==
  <<"CLIENT_LIST", c, "203.0.113.7:40000", "10.8.0.2", "", bytes, "90", "2024-01-01 10:00:00">>
MarkedTruncated(c) == <<"CLIENT_LIST", c, "203.0.113.7:40000">>

\* The same record without the CLIENT_LIST marker, and cut short.
UnmarkedRecord(c, bytes) ==
  <<c, "203.0.113.7:40000", "10.8.0.2", "", bytes, "90", "2024-01-01 10:00:00">>
UnmarkedTruncated(c) == <<c, "203.0.113.7:40000">>

\* content.split("\n"): the lines, and the text after the last newline.
splitLines(content) == content \o << <<"">> >>

\* parseInt(s, 10) || 0 on the byte counts a feed can hold.
parseInt(s) == CASE s = "100" -> 100 [] s = "250" -> 250 [] s = "90" -> 90 [] OTHER -> 0

Field(parts, k) == IF k <= Len(parts) THEN parts[k] ELSE ""

\* The ActiveConnection built from the fields of a record, the first at `from`.
Connection(parts, from) ==
  [commonName |-> Field(parts, from), realAddress |-> Field(parts, from + 1),
   virtualAddress |-> Field(parts, from + 2),
   bytesReceived |-> parseInt(Field(parts, from + 4)),
   bytesSent |-> parseInt(Field(parts, from + 5)),
   connectedSince |-> Field(parts, from + 6)]

\* line.startsWith("HEADER,CLIENT_LIST"), line.startsWith("HEADER,"),
\* line.startsWith("END"), line.startsWith("CLIENT_LIST,"), line.startsWith("HEADER"),
\* line.includes(",")
IsClientsHeader(line) == Len(line) >= 2 /\ line[1] = "HEADER" /\ line[2] = "CLIENT_LIST"
IsHeader(line) == Len(line) >= 2 /\ line[1] = "HEADER"
IsEnd(line) == line[1] = "END"
IsMarked(line) == Len(line) >= 2 /\ line[1] = "CLIENT_LIST"
HasComma(line) == Len(line) >= 2

\* The connections one line of the client list contributes.
parseLine(line) ==
  (IF IsMarked(line) /\ Len(line) >= 8 THEN <<Connection(line, 2)>> ELSE <<>>)
  \o (IF ~IsMarked(line) /\ line[1] # "HEADER" /\ HasComma(line) /\ Len(line) >= 5
        THEN <<Connection(line, 1)>> ELSE <<>>)

\* The same, without the length tests.
parseLineUnchecked(line) ==
  (IF IsMarked(line) THEN <<Connection(line, 2)>> ELSE <<>>)
  \o (IF ~IsMarked(line) /\ line[1] # "HEADER" /\ HasComma(line)
        THEN <<Connection(line, 1)>> ELSE <<>>)

RECURSIVE parseFrom(_, _, _)
\* The loop of parseStatusFile from line k on, inClientList as given.
parseFrom(lines, k, inClientList) ==
  IF k > Len(lines) THEN <<>>
  ELSE LET line == lines[k] IN
       IF IsClientsHeader(line) THEN parseFrom(lines, k + 1, TRUE)
       ELSE IF IsHeader(line) THEN parseFrom(lines, k + 1, FALSE)
       ELSE IF IsEnd(line) THEN <<>>
       ELSE (IF inClientList THEN parseLine(line) ELSE <<>>)
            \o parseFrom(lines, k + 1, inClientList)

parseStatusFile(content) == parseFrom(splitLines(content), 1, FALSE)

\* A missing status file is reported as an error.
getActiveConnectionsStrict(feed) ==
  IF ~feed.exists THEN <<Connection(<<"ENOENT">>, 1)>> ELSE parseStatusFile(feed.text)

\* file.exists(), then file.text()
getActiveConnections(feed) == IF ~feed.exists THEN <<>> ELSE parseStatusFile(feed.text)

\* The row of connection_log an ActiveConnection is stored as.
LogRow(conn) ==
  [client_name |-> conn.commonName, real_address |-> conn.realAddress,
   virtual_address |-> conn.virtualAddress, bytes_received |-> conn.bytesReceived,
   bytes_sent |-> conn.bytesSent, connected_at |-> conn.connectedSince]

RECURSIVE MapRows(_)
MapRows(conns) == IF conns = <<>> THEN <<>> ELSE <<LogRow(Head(conns))>> \o MapRows(Tail(conns))

RECURSIVE Upsert(_, _)
\* The statement under a UNIQUE key on client_name: the row of that client is replaced.
Upsert(log, rows) ==
  IF rows = <<>> THEN log
  ELSE Upsert(SelectSeq(log, LAMBDA row : row.client_name # Head(rows).client_name)
                \o <<Head(rows)>>, Tail(rows))

\* INSERT OR REPLACE INTO connection_log (client_name, ...) for each connection: the
\* table's only key is the id, which the statement leaves to AUTOINCREMENT, so no
\* row conflicts and each one is added.
insertSnapshotUpserting(log, conns) == Upsert(log, MapRows(conns))

insertSnapshot(log, conns) == log \o MapRows(conns)

\* GET /api/instances/:name/status/connections, up to the end of its own
\* getActiveConnections(): the feed is read and parsed.
SnapshotBegin(r, i, feed, serial) ==
  LET rq == NewReq("snapshot", i, "", NoBody, "NULL") IN
  /\ Takes(r) /\ ops + now < MaxOps /\ (serial => Quiet(i))
  /\ ops' = ops + 1
  /\ req' = [req EXCEPT ![r] =
               IF i \notin DOMAIN instances
                 THEN Answer(rq, Resp(404, "NotFoundError", NoText))
                 ELSE [rq EXCEPT !.pc = "snap_record", !.content = feed,
                                 !.conns = getActiveConnections(feed)]]
  /\ UNCHANGED <<instances, server_config, setup_state, clients, pki, files, host, now,
                 connection_log>>

\* recordSnapshot() reads the feed again and stores what it holds by then in the
\* history of the instance; the handler answers with the connections it parsed.
SnapshotRecord(r, again) ==
  /\ req[r].pc = "snap_record"
  /\ LET i == req[r].inst IN
     connection_log' = IF i \in DOMAIN connection_log
                         THEN [connection_log EXCEPT
                                 ![i] = insertSnapshot(@, getActiveConnections(again))]
                         ELSE connection_log
  /\ req' = [req EXCEPT ![r] = [Answer(req[r], Reply(200, "connections"))
                                  EXCEPT !.conns = req[r].conns]]
  /\ UNCHANGED <<instances, server_config, setup_state, clients, pki, files, host, now, ops>>

\* ---------------------------------------------------------------- delete
Db(inst, conf, st, cl, log) ==
  [instances |-> inst, server_config |-> conf, setup_state |-> st, clients |-> cl,
   connection_log |-> log]

Without(tbl, i) == [n \in DOMAIN tbl \ {i} |-> tbl[n]]

\* The same statement with foreign keys not enforced: only the instances row goes.
deleteRowsNoCascade(db, i) == [db EXCEPT !.instances = Without(@, i)]

\* DELETE FROM instances WHERE id = ?; server_config, setup_state, clients and
\* connection_log reference instances(id) ON DELETE CASCADE, PRAGMA foreign_keys = ON.
deleteRows(db, i) ==
  [instances |-> Without(db.instances, i),
   server_config |-> Without(db.server_config, i),
   setup_state |-> Without(db.setup_state, i),
   clients |-> Without(db.clients, i),
   connection_log |-> [db.connection_log EXCEPT ![i] = <<>>]]

\* The rmSync calls of delete whose effect the model keeps; each is in its own try.
DeleteArtifacts == {"easy-rsa", "ccd", "conf"}

\* The files of the instance after the rmSync calls, those in `failed` having thrown.
removeArtifacts(f, failed) ==
  [conf |-> IF "conf" \in failed THEN f.conf ELSE <<>>,
   ccd |-> IF "ccd" \in failed THEN f.ccd ELSE [c \in ClientNames |-> <<>>],
   dirs |-> f.dirs \ ({"easy-rsa", "ccd"} \ failed)]

\* What the caller of delete gets: the route answers 200, a direct caller nothing.
DeleteAnswer(rq) == IF rq.op = "delete" THEN Reply(200, "deleted") ELSE Reply(0, "returned")

\* delete without `if (!instance) return`.
DeleteBeginUnguarded(r, i, boundary, serial) ==
  LET rq == NewReq(IF boundary THEN "delete" ELSE "delete_call", i, "", NoBody, "NULL") IN
  /\ Takes(r) /\ ops + now < MaxOps /\ (serial => Quiet(i))
  /\ ops' = ops + 1
  /\ req' = [req EXCEPT ![r] =
              IF i \notin DOMAIN instances /\ boundary
                THEN Answer(rq, Resp(404, "NotFoundError", NoText))
                ELSE [rq EXCEPT !.pc = "del_stop"]]
  /\ UNCHANGED <<instances, server_config, setup_state, clients, connection_log, pki, files,
                 host, now>>

\* DELETE /api/instances/:name (boundary: resolveInstance answers 404), or a direct
\* call of InstanceService.delete as the dashboard makes; up to the first await.
DeleteBegin(r, i, boundary, serial) ==
  LET rq == NewReq(IF boundary THEN "delete" ELSE "delete_call", i, "", NoBody, "NULL") IN
  /\ Takes(r) /\ ops + now < MaxOps /\ (serial => Quiet(i))
  /\ ops' = ops + 1
  /\ req' = [req EXCEPT ![r] =
              IF i \in DOMAIN instances THEN [rq EXCEPT !.pc = "del_stop"]
              ELSE IF boundary THEN Answer(rq, Resp(404, "NotFoundError", NoText))
              ELSE Answer(rq, DeleteAnswer(rq))]
  /\ UNCHANGED <<instances, server_config, setup_state, clients, connection_log, pki, files,
                 host, now>>

\* A best-effort part failing makes delete answer 500 and keep the rows.
DeleteStepSurfacing(r, ok, failed) ==
  LET rq == req[r]
      i == rq.inst
      surfaced == ~ok \/ failed # {}
      db == deleteRows(Db(instances, server_config, setup_state, clients, connection_log), i)
  IN
  /\ rq.op \in {"delete", "delete_call"} /\ InFlight(r)
  /\ IF rq.pc = "del_stop"
       THEN /\ failed = {}
            /\ host' = IF ok THEN [host EXCEPT !.units[i].active = FALSE] ELSE host
            /\ req' = [req EXCEPT ![r] = IF ok THEN [rq EXCEPT !.pc = "del_disable"]
                                         ELSE Answer(rq, Resp(500, "ShellError", "del_stop"))]
            /\ UNCHANGED <<instances, server_config, setup_state, clients, connection_log,
                           pki, files>>
       ELSE /\ host' = IF ok THEN [host EXCEPT !.units[i].enabled = FALSE] ELSE host
            /\ pki' = IF "easy-rsa" \in failed \/ ~ok THEN pki ELSE [pki EXCEPT ![i] = EmptyPki]
            /\ files' = IF ok THEN [files EXCEPT ![i] = removeArtifacts(@, failed)] ELSE files
            /\ instances' = IF surfaced THEN instances ELSE db.instances
            /\ server_config' = IF surfaced THEN server_config ELSE db.server_config
            /\ setup_state' = IF surfaced THEN setup_state ELSE db.setup_state
            /\ clients' = IF surfaced THEN clients ELSE db.clients
            /\ connection_log' = IF surfaced THEN connection_log ELSE db.connection_log
            /\ req' = [req EXCEPT ![r] =
                        Answer(rq, IF surfaced THEN Resp(500, "InternalError", NoText)
                                   ELSE DeleteAnswer(rq))]
  /\ UNCHANGED <<now, ops>>

\* systemctl stop, then systemctl disable, ends with 0 (ok) or not; after disable the
\* handler runs to its end: the rmSync calls, those in `failed` throwing, and the
\* DELETE.  Every failure is caught and logged.
DeleteStep(r, ok, failed) ==
  LET rq == req[r]
      i == rq.inst
      db == deleteRows(Db(instances, server_config, setup_state, clients, connection_log), i)
  IN
  /\ rq.op \in {"delete", "delete_call"} /\ InFlight(r)
  /\ IF rq.pc = "del_stop"
       THEN /\ failed = {}
            /\ host' = IF ok THEN [host EXCEPT !.units[i].active = FALSE] ELSE host
            /\ req' = [req EXCEPT ![r].pc = "del_disable"]
            /\ UNCHANGED <<instances, server_config, setup_state, clients, connection_log,
                           pki, files>>
       ELSE /\ host' = IF ok THEN [host EXCEPT !.units[i].enabled = FALSE] ELSE host
            /\ pki' = IF "easy-rsa" \in failed THEN pki ELSE [pki EXCEPT ![i] = EmptyPki]
            /\ files' = [files EXCEPT ![i] = removeArtifacts(@, failed)]
            /\ instances' = db.instances
            /\ server_config' = db.server_config
            /\ setup_state' = db.setup_state
            /\ clients' = db.clients
            /\ connection_log' = db.connection_log
            /\ req' = [req EXCEPT ![r] = Answer(rq, DeleteAnswer(rq))]
  /\ UNCHANGED <<now, ops>>

Next ==
  \/ Tick
  \/ \E r \in Slots, i \in InstanceNames, at \in CreateOutcomes : CreateInstance(r, i, TRUE, at)
  \/ \E r \in Slots, i \in InstanceNames, body \in Bodies : SetupBegin(r, i, body, TRUE)
  \/ \E r \in Slots : SetupOk(r)
  \/ \E r \in Slots : SetupCheck(r)
  \/ \E r \in Slots : SetupFail(r)
  \/ \E r \in Slots, i \in InstanceNames, c \in ClientNames, ip \in StaticIps : IssueBegin(r, i, c, ip, TRUE)
  \/ \E r \in Slots : IssueOk(r)
  \/ \E r \in Slots : IssueFail(r)
  \/ \E r \in Slots, i \in InstanceNames, c \in ClientNames : RevokeBegin(r, i, c, TRUE)
  \/ \E r \in Slots : RevokeOk(r)
  \/ \E r \in Slots : RevokeFail(r)
  \/ \E r \in Slots, i \in InstanceNames, c \in ClientNames : RenewBegin(r, i, c, TRUE)
  \/ \E r \in Slots : RenewOk(r)
  \/ \E r \in Slots : RenewFail(r)

Spec == Init /\ [][Next]_vars

\* The state once create has succeeded for each of `names`, the chains of the host
\* holding `nat` and `forward` and the server_config table holding `rows`.
CreatedWith(names, nat, forward, rows) ==
  /\ instances = [n \in names |-> NewInstance(n)]
  /\ server_config = rows
  /\ setup_state = [n \in names |-> InitialSetupState]
  /\ clients = [n \in names |-> <<>>]
  /\ connection_log = [n \in names |-> <<>>]
  /\ pki = [n \in names |-> EmptyPki]
  /\ files = [n \in names |-> [EmptyFiles EXCEPT !.dirs = createDirs({}, "ok")]]
  /\ host = [packages |-> FALSE, forwarding |-> FALSE, sysctlFile |-> FALSE,
             nat |-> nat, forward |-> forward, saved |-> <<>>, logDir |-> TRUE,
             units |-> [n \in names |-> EmptyUnit]]
  /\ req = [r \in Slots |-> IdleReq]
  /\ now = 0
  /\ ops = Cardinality(names)

Created(names, nat, forward) ==
  CreatedWith(names, nat, forward, [n \in names |-> [DefaultServerConfig EXCEPT !.updated_at = 0]])

\* Rule sets the host may hold before a setup run: empty, the run's own rules already
\* there (once or twice), rules of somebody else.
InitialNat ==
  LET own == NatRule("10.8.0.0", <<255, 255, 255, 0>>, "eth0")
      other == NatRule("192.168.0.0", <<255, 255, 255, 0>>, "eth0")
  IN {<<>>, <<own>>, <<other>>, <<own, own>>, <<other, own>>}

InitialForward ==
  LET out == FwdOutRule("office", "eth0")
      in == FwdInRule("office", "eth0")
      other == FwdOutRule("office-status", "eth0")
  IN {<<>>, <<out>>, <<in>>, <<in, out>>, <<other>>, <<out, other, out>>}

\* Setup runs on one instance, one after the other, from any of these rule sets.
NatInit == \E nat \in InitialNat, forward \in InitialForward : Created({"office"}, nat, forward)

SetupNext(slots, names, bodies, serial) ==
  \/ \E r \in slots, i \in names, body \in bodies : SetupBegin(r, i, body, serial)
  \/ \E r \in Slots : SetupOk(r)
  \/ \E r \in Slots : SetupCheck(r)
  \/ \E r \in Slots : SetupFail(r)

NatNext == SetupNext(Slots, {"office"}, Bodies, TRUE)

NatSpec == NatInit /\ [][NatNext]_vars

\* Setup runs on two instances; the runs of one instance are serialized by the
\* caller, the runs of different instances overlap.
PairInit == Created(AllInstances, <<>>, <<>>)

\* The body every field of which is the default of the setupRequest schema.
DefaultBodies == {b \in Bodies : b.subnet = DefaultServerConfig.subnet}

PairNext == SetupNext(Slots, AllInstances, DefaultBodies, TRUE)

PairSpec == PairInit /\ [][PairNext]_vars

\* Setup requests on one instance that nobody serializes, at most two of them in
\* flight at a time.
OverlapInit == Created({"office"}, <<>>, <<>>)

OverlapNext == SetupNext({1, 2}, {"office"}, DefaultBodies, FALSE)

OverlapSpec == OverlapInit /\ [][OverlapNext]_vars

\* The feed of an instance nobody is connected to and of one with a session.
LifecycleFeeds == {NoFile, File(<<ClientsHeader, MarkedRecord("alice", "100"), EndLine>>)}

\* Every request of the registry and of the instance routes, deletes included, at
\* one instant and with the default-like setup body.
LifecycleNext ==
  \/ \E r \in Slots, i \in InstanceNames, at \in CreateOutcomes : CreateInstance(r, i, TRUE, at)
  \/ \E r \in Slots, i \in InstanceNames, at \in CreateOutcomes : CreateCall(r, i, TRUE, at)
  \/ \E r \in Slots, i \in InstanceNames, body \in {b \in Bodies : b.devType = "tun"} :
       SetupBegin(r, i, body, TRUE)
  \/ \E r \in Slots : SetupOk(r)
  \/ \E r \in Slots : SetupCheck(r)
  \/ \E r \in Slots : SetupFail(r)
  \/ \E r \in Slots, i \in InstanceNames, c \in ClientNames : IssueBegin(r, i, c, "NULL", TRUE)
  \/ \E r \in Slots : IssueOk(r)
  \/ \E r \in Slots : IssueFail(r)
  \/ \E r \in Slots, i \in InstanceNames, c \in ClientNames : RevokeBegin(r, i, c, TRUE)
  \/ \E r \in Slots : RevokeOk(r)
  \/ \E r \in Slots : RevokeFail(r)
  \/ \E r \in Slots, i \in InstanceNames, c \in ClientNames : RenewBegin(r, i, c, TRUE)
  \/ \E r \in Slots : RenewOk(r)
  \/ \E r \in Slots : RenewFail(r)
  \/ \E r \in Slots, i \in InstanceNames, upd \in {NoUpdate, PortUpdate} : ConfigBegin(r, i, upd, TRUE)
  \/ \E r \in Slots : ConfigOk(r)
  \/ \E r \in Slots : ConfigFail(r)
  \/ \E r \in Slots, i \in InstanceNames, routes \in RouteLists : RoutesBegin(r, i, routes, TRUE)
  \/ \E r \in Slots : RoutesOk(r)
  \/ \E r \in Slots : RoutesFail(r)
  \/ \E r \in Slots, i \in InstanceNames, feed \in LifecycleFeeds : SnapshotBegin(r, i, feed, TRUE)
  \/ \E r \in Slots : SnapshotRecord(r, req[r].content)
  \/ \E r \in Slots, i \in InstanceNames, boundary \in BOOLEAN : DeleteBegin(r, i, boundary, TRUE)
  \/ \E r \in Slots, ok \in BOOLEAN, failed \in SUBSET DeleteArtifacts : DeleteStep(r, ok, failed)

LifecycleSpec == Init /\ [][LifecycleNext]_vars

\* The status feeds: no file, an empty file, and a file of either form with up to
\* MaxRecords record lines, whole or cut short. The newer form opens with the
\* HEADER,CLIENT_LIST line and marks its records; the older form has a title
\* line, no HEADER line and unmarked records; the parser also takes unmarked
\* records under the HEADER,CLIENT_LIST line.
MaxRecords == 2

MarkedLines ==
  {MarkedRecord(c, b) : c \in ClientNames, b \in ByteCounts}
    \cup {MarkedTruncated(c) : c \in ClientNames}

UnmarkedLines ==
  {UnmarkedRecord(c, b) : c \in ClientNames, b \in ByteCounts}
    \cup {UnmarkedTruncated(c) : c \in ClientNames}

SeqsUpTo(S, n) == UNION {[1..k -> S] : k \in 0..n}

Feeds ==
  {NoFile, File(<<>>)}
    \cup {File(<<ClientsHeader>> \o recs \o <<RoutingHeader, EndLine>>) :
            recs \in SeqsUpTo(MarkedLines, MaxRecords)}
    \cup {File(<<ClientsHeader>> \o recs \o <<EndLine>>) :
            recs \in SeqsUpTo(UnmarkedLines, MaxRecords)}
    \cup {File(<<TitleLine>> \o recs \o <<EndLine>>) :
            recs \in SeqsUpTo(UnmarkedLines, MaxRecords)}

\* What the feed can hold by the time recordSnapshot reads it again.
LaterFeeds == {NoFile, File(<<ClientsHeader, MarkedRecord("alice", "250"), EndLine>>)}

\* ---------------------------------------------------------------- API boundary
\* config.apiKey, and what a request can carry in X-API-Key.
ApiKey == "secret"
NoKey == "NULL"
Keys == {NoKey, "wrong", ApiKey}

\* A request passes with any key at all.
authMiddlewareAnyKey(key) == key # NoKey

\* if (!apiKey || apiKey !== config.apiKey) return 401, else next()
authMiddleware(key) == key # NoKey /\ key = ApiKey

\* return c.json({ error: "Unauthorized", message: "Invalid or missing API key" }, 401)
Reject(r) ==
  /\ Takes(r) /\ ops + now < MaxOps
  /\ ops' = ops + 1
  /\ req' = [req EXCEPT ![r] = [Answer(NewReq("api", "", "", NoBody, "NULL"),
                                       Resp(401, "Unauthorized", NoText))
                                  EXCEPT !.resp.message = "Invalid or missing API key"]]
  /\ UNCHANGED <<instances, server_config, setup_state, clients, connection_log, pki, files,
                 host, now>>

\* The first segment of the handler of a route under /api/instances, in slot r.
Handler(r) ==
  \/ \E i \in InstanceNames, at \in CreateOutcomes : CreateInstance(r, i, TRUE, at)
  \/ \E i \in InstanceNames, upd \in {NoUpdate, PortUpdate} : ConfigBegin(r, i, upd, TRUE)
  \/ \E i \in InstanceNames, routes \in RouteLists : RoutesBegin(r, i, routes, TRUE)
  \/ \E i \in InstanceNames, feed \in LifecycleFeeds : SnapshotBegin(r, i, feed, TRUE)
  \/ \E i \in InstanceNames : DeleteBegin(r, i, TRUE, TRUE)

\* app.use("/api/*", authMiddleware(config)) in front of the routes.
Api(r, key) == IF authMiddleware(key) THEN Handler(r) ELSE Reject(r)

\* app.get("/health"), registered before the middleware.
Health(r, key) ==
  /\ Takes(r) /\ ops + now < MaxOps
  /\ ops' = ops + 1
  /\ req' = [req EXCEPT ![r] = Answer(NewReq("health", "", "", NoBody, "NULL"), Reply(200, "ok"))]
  /\ UNCHANGED <<instances, server_config, setup_state, clients, connection_log, pki, files,
                 host, now>>

AuthNext ==
  \/ \E r \in Slots, key \in Keys : Api(r, key)
  \/ \E r \in Slots, key \in Keys : Health(r, key)
  \/ \E r \in Slots : ConfigOk(r)
  \/ \E r \in Slots : ConfigFail(r)
  \/ \E r \in Slots : RoutesOk(r)
  \/ \E r \in Slots : RoutesFail(r)
  \/ \E r \in Slots : SnapshotRecord(r, req[r].content)
  \/ \E r \in Slots, ok \in BOOLEAN, failed \in SUBSET DeleteArtifacts : DeleteStep(r, ok, failed)

AuthSpec == Init /\ [][AuthNext]_vars

\* ---------------------------------------------------------------- legacy schema migration
\* The tables of the legacy schema have no instance_id column: their rows are held
\* under LegacyKey, and there is no instances table.
LegacyKey == ""

\* config.paths of the single-instance configuration.
LegacyPaths ==
  [easyrsaDir |-> <<"/etc/openvpn", "easy-rsa">>,
   serverConfigPath |-> <<"/etc/openvpn", "server.conf">>,
   statusFile |-> <<"/var/log/openvpn", "status.log">>,
   logFile |-> <<"/var/log/openvpn", "openvpn.log">>,
   clientConfigDir |-> <<"/etc/openvpn", "ccd">>]

\* INSERT INTO instances (name, display_name, status, ...) VALUES ('default', 'Default', 'active', ...)
DefaultInstance ==
  [status |-> "active", easyrsa_dir |-> LegacyPaths.easyrsaDir,
   config_path |-> LegacyPaths.serverConfigPath, status_file |-> LegacyPaths.statusFile,
   log_file |-> LegacyPaths.logFile, ccd_dir |-> LegacyPaths.clientConfigDir]

\* The statements of the migration in their order, each of which can fail.
MigrateSteps ==
  <<"create_instances", "insert_default", "server_config", "clients", "connection_log",
    "setup_state", "indexes", "commit">>

MigrateOutcomes == {"ok"} \cup {MigrateSteps[k] : k \in 1..Len(MigrateSteps)}

\* hasInstances is false and hasOldServerConfig is true.
IsLegacy(db) == db.instances = <<>> /\ LegacyKey \in DOMAIN db.server_config

\* RENAME, CREATE, INSERT ... SELECT ?, ... FROM _old, DROP: the rows of the table now
\* carry the id of the default instance.
Reparent(tbl) ==
  IF LegacyKey \in DOMAIN tbl THEN [n \in {"default"} |-> tbl[LegacyKey]] ELSE <<>>

\* The database once the statements before `at` have run.
migrateStatements(db, at) ==
  LET n == IF at = "ok" THEN Len(MigrateSteps) + 1
           ELSE CHOOSE k \in 1..Len(MigrateSteps) : MigrateSteps[k] = at
  IN
  [instances |-> IF n > 2 THEN [i \in {"default"} |-> DefaultInstance] ELSE db.instances,
   server_config |-> IF n > 3 THEN Reparent(db.server_config) ELSE db.server_config,
   clients |-> IF n > 4 THEN Reparent(db.clients) ELSE db.clients,
   connection_log |-> IF n > 5 THEN Reparent(db.connection_log) ELSE db.connection_log,
   setup_state |-> IF n > 6 THEN Reparent(db.setup_state) ELSE db.setup_state]

\* The statements without the transaction around them.
migrateRowsNoRollback(db, at) == migrateStatements(db, at)

\* BEGIN TRANSACTION ... COMMIT, and ROLLBACK in the catch.
migrateRows(db, at) == IF at = "ok" THEN migrateStatements(db, "ok") ELSE db

\* migrateToMultiInstance, called at startup; a failure is thrown to the caller.
MigrateToMultiInstance(r, at) ==
  LET rq == NewReq("migrate", "default", "", NoBody, "NULL")
      db == Db(instances, server_config, setup_state, clients, connection_log)
      new == IF IsLegacy(db) THEN migrateRows(db, at) ELSE db
  IN
  /\ Takes(r) /\ ops + now < MaxOps
  /\ ~IsLegacy(db) => at = "ok"
  /\ ops' = ops + 1
  /\ instances' = new.instances
  /\ server_config' = new.server_config
  /\ setup_state' = new.setup_state
  /\ clients' = new.clients
  /\ connection_log' = new.connection_log
  /\ req' = [req EXCEPT ![r] = Answer(rq, IF at = "ok" THEN Reply(0, "returned")
                                          ELSE Resp(0, "Error", at))]
  /\ UNCHANGED <<pki, files, host, now>>

\* The databases the program can be started on: a legacy one with its singleton rows,
\* no, an active or a revoked client and up to MaxRecords history rows; one without
\* tables; one that already has the per-instance schema.
LegacyLogs ==
  {<<>>, <<LogRow(Connection(UnmarkedRecord("alice", "100"), 1))>>,
   <<LogRow(Connection(UnmarkedRecord("alice", "100"), 1)),
     LogRow(Connection(UnmarkedRecord("alice", "250"), 1))>>}

LegacyClients ==
  {<<>>, [c \in {"alice"} |-> NewClient(c, "NULL", 0)],
   [c \in {"alice"} |-> [NewClient(c, "10.8.0.5", 0) EXCEPT !.status = "revoked", !.revoked_at = 0]]}

LegacyInit ==
  \E row \in {[DefaultServerConfig EXCEPT !.updated_at = 0, !.pki_initialized = p, !.port = port] :
                p \in {0, 1}, port \in {1194, 1195}},
     st \in {InitialSetupState,
             [InitialSetupState EXCEPT !.step = "service_started", !.completed = TRUE,
                                       !.started_at = 0, !.completed_at = 0]},
     cl \in LegacyClients, log \in LegacyLogs :
    /\ instances = <<>>
    /\ server_config = [k \in {LegacyKey} |-> row]
    /\ setup_state = [k \in {LegacyKey} |-> st]
    /\ clients = [k \in {LegacyKey} |-> cl]
    /\ connection_log = [k \in {LegacyKey} |-> log]
    /\ pki = [n \in {"default"} |-> EmptyPki]
    /\ files = [n \in {"default"} |-> EmptyFiles]
    /\ host = [packages |-> TRUE, forwarding |-> TRUE, sysctlFile |-> TRUE,
               nat |-> <<>>, forward |-> <<>>, saved |-> <<>>, logDir |-> TRUE,
               units |-> [n \in {"default"} |-> EmptyUnit]]
    /\ req = [r \in Slots |-> IdleReq]
    /\ now = 0
    /\ ops = 0

MigrationInit == LegacyInit \/ Init \/ Created({"office"}, <<>>, <<>>)

MigrationNext == \E r \in Slots, at \in MigrateOutcomes : MigrateToMultiInstance(r, at)

MigrationSpec == MigrationInit /\ [][MigrationNext]_vars

\* The server_config rows PUT /server/config can leave behind: either device type, no,
\* one or two resolvers, each of the three flags either way.
RenderRows ==
  {[DefaultServerConfig EXCEPT !.updated_at = 0, !.dev_type = dev, !.dns = dns,
                               !.tls_auth = tls, !.compress = comp, !.client_to_client = c2c] :
     dev \in {"tun", "tap"}, dns \in {<<>>, <<"9.9.9.9">>, <<"1.1.1.1", "1.0.0.1">>},
     tls \in {0, 1}, comp \in {"", "lz4-v2"}, c2c \in {0, 1}}

\* An instance with any of these rows, and requests that render its configuration
\* again without changing the row, at different times.
RenderInit ==
  \E row \in RenderRows : CreatedWith({"office"}, <<>>, <<>>, [n \in {"office"} |-> row])

RenderNext ==
  \/ Tick
  \/ \E r \in Slots, i \in InstanceNames : ConfigBegin(r, i, NoUpdate, TRUE)
  \/ \E r \in Slots : ConfigOk(r)
  \/ \E r \in Slots : ConfigFail(r)

RenderSpec == RenderInit /\ [][RenderNext]_vars

\* Two instances and config updates of either, with every body of Updates.
ConfigInit == Created(AllInstances, <<>>, <<>>)

ConfigNext ==
  \/ Tick
  \/ \E r \in Slots, i \in AllInstances, upd \in Updates : ConfigBegin(r, i, upd, TRUE)
  \/ \E r \in Slots : ConfigOk(r)
  \/ \E r \in Slots : ConfigFail(r)

ConfigSpec == ConfigInit /\ [][ConfigNext]_vars

\* Provisioning by either entry point, and deletes: instances are created by POST or
\* by the wizard, set up by POST /setup or by the wizard, and deleted.
ProvisionBodies == {b \in Bodies : b.devType = "tun"}

ProvisionNext ==
  \/ \E r \in Slots, i \in InstanceNames : CreateInstance(r, i, TRUE, "ok")
  \/ \E r \in Slots, i \in InstanceNames, body \in ProvisionBodies : SetupBegin(r, i, body, TRUE)
  \/ \E r \in Slots : SetupOk(r)
  \/ \E r \in Slots : SetupCheck(r)
  \/ \E r \in Slots : SetupFail(r)
  \/ \E r \in Slots, i \in InstanceNames, body \in ProvisionBodies, at \in {"ok", "insert_instance"} :
       WizardBegin(r, i, body, TRUE, at)
  \/ \E r \in Slots : WizardOk(r)
  \/ \E r \in Slots : WizardCheck(r)
  \/ \E r \in Slots : WizardFail(r)
  \/ \E r \in Slots, i \in InstanceNames : DeleteBegin(r, i, TRUE, TRUE)
  \/ \E r \in Slots, ok \in BOOLEAN : DeleteStep(r, ok, {})

ProvisionSpec == Init /\ [][ProvisionNext]_vars

PrefixLengths == 0..32

OctetBits(n, k) ==
  IF n >= 8 * k THEN 8 ELSE IF n <= 8 * (k - 1) THEN 0 ELSE n - 8 * (k - 1)

PrefixMask(n) == [k \in 1..4 |-> 256 - 2 ^ (8 - OctetBits(n, k))]

\* An instance whose row holds the netmask of any prefix length, and setup runs on
\* it, one after the other, whose body carries the subnet and mask of the row.
MaskInit ==
  \E n \in PrefixLengths :
    CreatedWith({"office"}, <<>>, <<>>,
                [i \in {"office"} |->
                   [DefaultServerConfig EXCEPT !.updated_at = 0, !.subnet_mask = PrefixMask(n)]])

MaskNext ==
  SetupNext(Slots, {"office"},
            {[b EXCEPT !.subnetMask = server_config["office"].subnet_mask] :
               b \in {b \in Bodies : b.devType = "tun"}},
            TRUE)

MaskSpec == MaskInit /\ [][MaskNext]_vars

\* Issue requests on two instances that nothing serializes: a request may arrive
\* while another one for the same instance, and the same name, is in flight.
ClientRaceInit == Created(AllInstances, <<>>, <<>>)

ClientRaceNext ==
  \/ Tick
  \/ \E r \in Slots, i \in AllInstances, c \in ClientNames, ip \in StaticIps :
       IssueBegin(r, i, c, ip, FALSE)
  \/ \E r \in Slots : IssueOk(r)
  \/ \E r \in Slots : IssueFail(r)

ClientRaceSpec == ClientRaceInit /\ [][ClientRaceNext]_vars

\* Status requests on one instance whose feed OpenVPN rewrites at will.
MonitorInit == Created({"office"}, <<>>, <<>>)

MonitorNext ==
  \/ \E r \in Slots, i \in InstanceNames, feed \in Feeds : SnapshotBegin(r, i, feed, TRUE)
  \/ \E r \in Slots : \E again \in {req[r].content} \cup LaterFeeds : SnapshotRecord(r, again)

MonitorSpec == MonitorInit /\ [][MonitorNext]_vars

\* ---------------------------------------------------------------- vocabulary of the properties
\* In this step the handler of a new `op` request runs in slot r.
Arrives(r, op) == ops' = ops + 1 /\ Takes(r) /\ req'[r].op = op

\* In this step the handler in slot r returns or throws.
Returns(r, op) == InFlight(r) /\ req[r].op = op /\ req'[r].pc = "done"

\* No handler is working on instance i.
Stopped(i) == \A r \in Slots : InFlight(r) => req[r].inst # i

AuthorityArts == {"pki", "ca", "server", "dh", "ta", "crl"}

\* What a step's side effects leave behind once all of them have succeeded.
EffectsDone(i, s) ==
  CASE s = "none" -> TRUE
    [] s = "packages_installed" -> host.packages
    [] s = "pki_initialized" -> AuthorityArts \subseteq pki[i].arts
    [] s = "server_configured" -> server_config[i].pki_initialized = 1 /\ files[i].conf # <<>>
    [] s = "network_configured" -> host.forwarding /\ host.sysctlFile /\ host.nat # <<>>
                                   /\ Len(host.forward) >= 2 /\ host.saved # <<>>
    [] OTHER -> host.units[i].enabled /\ host.units[i].active

\* ---------------------------------------------------------------- C1
\* C1: whenever a setup run has stopped (one of its commands failed), the
\* persisted step names a step whose side effects have all succeeded.
C1_StepNamesCompletedWork ==
  \A i \in DOMAIN setup_state : Stopped(i) => EffectsDone(i, setup_state[i].step)

\* ---------------------------------------------------------------- C2
\* C2: a setup request on an instance whose setup is completed is answered 409 and
\* changes nothing: no command is started, no table and no host state is touched.
C2_CompletedSetupConflicts ==
  [][\A r \in Slots :
       (Arrives(r, "setup") /\ req'[r].inst \in DOMAIN setup_state
          /\ setup_state[req'[r].inst].completed)
       => /\ req'[r].pc = "done"
          /\ req'[r].resp.code = 409
          /\ UNCHANGED <<instances, server_config, setup_state, clients, pki, files, host>>]_vars

C2_Witness ==
  \E r \in Slots :
    /\ req[r].op = "setup" /\ req[r].resp.code = 409
    /\ req[r].inst \in DOMAIN setup_state /\ setup_state[req[r].inst].completed

\* ---------------------------------------------------------------- C3
\* The step a side effect of a setup run belongs to, read off what it changed.
EffectStep(i) ==
  IF host'.packages # host.packages THEN "packages_installed"
  ELSE IF pki'[i] # pki[i] THEN "pki_initialized"
  ELSE IF files'[i] # files[i] THEN "server_configured"
  ELSE IF host'.units # host.units THEN "running"
  ELSE IF host' # host THEN "network_configured"
  ELSE "none"

\* C3: within a setup run the persisted step moves one position forward at a time
\* along Steps, starting from the first step after the reset to none, and each
\* side effect happens while the persisted step is the step it belongs to.
C3_StepsAdvanceInOrder ==
  [][\A i \in DOMAIN setup_state \cap DOMAIN setup_state' :
       /\ setup_state'[i].step # setup_state[i].step =>
            IF \E r \in Slots : Arrives(r, "setup")
              THEN setup_state'[i].step = Steps[2]
              ELSE StepIndex(setup_state'[i].step) = StepIndex(setup_state[i].step) + 1
       /\ \A r \in Slots :
            (req[r].op = "setup" /\ InFlight(r) /\ req[r].inst = i /\ EffectStep(i) # "none")
            => setup_state[i].step = EffectStep(i)]_vars

C3_Witness ==
  \E r \in Slots :
    /\ req[r].op = "setup" /\ req[r].pc = "svc_start"
    /\ setup_state[req[r].inst].step = "running"
    /\ host.packages /\ host.forwarding /\ files[req[r].inst].conf # <<>>

\* ---------------------------------------------------------------- C4
\* C4: a setup run whose commands all succeed ends with step = running, completed
\* set, completed_at stamped and the instance active; completed is set by nothing
\* but the end of such a run.
C4_SuccessCompletes ==
  [][/\ \A r \in Slots :
          (Returns(r, "setup") /\ req'[r].resp.code = 200 /\ req[r].inst \in DOMAIN setup_state')
          => LET i == req[r].inst IN
             /\ setup_state'[i].step = "running"
             /\ setup_state'[i].completed
             /\ setup_state'[i].completed_at = now
             /\ instances'[i].status = "active"
     /\ \A i \in DOMAIN setup_state \cap DOMAIN setup_state' :
          (~setup_state[i].completed /\ setup_state'[i].completed)
          => \E r \in Slots : /\ Returns(r, "setup") /\ req[r].inst = i
                              /\ req[r].pc = SetupCmds[Len(SetupCmds)]
                              /\ req'[r].resp.code = 200]_vars

C4_Witness ==
  \E r \in Slots :
    /\ req[r].op = "setup" /\ req[r].pc = "done" /\ req[r].resp.code = 200
    /\ setup_state[req[r].inst].completed
    /\ setup_state[req[r].inst].step = "running"
    /\ instances[req[r].inst].status = "active"

\* ---------------------------------------------------------------- C5
\* C5: when a command of a setup run fails, its message is stored in
\* setup_state.error, the instance status becomes error, completed stays false and
\* the answer is a ServiceError (500) whose details are that message.
C5_FailureRecorded ==
  [][\A r \in Slots :
       (Returns(r, "setup") /\ req'[r].resp.code # 200 /\ req[r].inst \in DOMAIN setup_state')
       => LET i == req[r].inst IN
          /\ setup_state'[i].error = ShellMessage(req[r].pc)
          /\ setup_state'[i].error # NoText
          /\ instances'[i].status = "error"
          /\ ~setup_state'[i].completed
          /\ req'[r].resp.code = 500
          /\ req'[r].resp.error = "ServiceError"
          /\ req'[r].resp.details = setup_state'[i].error]_vars

C5_Witness ==
  \E r \in Slots :
    /\ req[r].op = "setup" /\ req[r].resp.code = 500 /\ req[r].resp.error = "ServiceError"
    /\ setup_state[req[r].inst].error = req[r].resp.details
    /\ setup_state[req[r].inst].error = "gen_dh"
    /\ instances[req[r].inst].status = "error"

\* ---------------------------------------------------------------- C6
\* C6: the failure of a setup run undoes nothing: the authority, the server_config
\* row, the written files and the host are after the failure what they were before.
C6_FailureUndoesNothing ==
  [][\A r \in Slots :
       (Returns(r, "setup") /\ req'[r].resp.code = 500)
       => UNCHANGED <<server_config, pki, files, host>>]_vars

C6_Witness ==
  \E r \in Slots :
    /\ req[r].op = "setup" /\ req[r].resp.code = 500
    /\ server_config[req[r].inst].pki_initialized = 1
    /\ "ca" \in pki[req[r].inst].arts
    /\ files[req[r].inst].conf # <<>>
    /\ host.nat # <<>>
    /\ ~setup_state[req[r].inst].completed

\* ---------------------------------------------------------------- C7
\* C7: nothing runs unless a request is in flight or arrives (no retry on its own);
\* a setup request on a not-completed instance is accepted and, in the handler's
\* first segment, clears the stored error, stamps started_at and starts again from
\* the first command of the first step.
C7_RetryIsExplicitAndRestarts ==
  [][/\ ((\A r \in Slots : Free(r)) /\ ops' = ops)
          => UNCHANGED <<instances, server_config, setup_state, clients, pki, files, host, req>>
     /\ \A r \in Slots :
          (Arrives(r, "setup") /\ req'[r].inst \in DOMAIN setup_state
             /\ ~setup_state[req'[r].inst].completed)
          => LET i == req'[r].inst IN
             /\ req'[r].pc = SetupCmds[1]
             /\ setup_state'[i].error = NoText
             /\ setup_state'[i].started_at = now
             /\ setup_state'[i].step = Steps[2]
             /\ ~setup_state'[i].completed]_vars

C7_Witness ==
  \E r \in Slots :
    /\ req[r].op = "setup" /\ req[r].pc = SetupCmds[1]
    /\ instances[req[r].inst].status = "error"
    /\ "ca" \in pki[req[r].inst].arts
    /\ setup_state[req[r].inst].error = NoText
    /\ setup_state[req[r].inst].started_at = MaxTime

\* ---------------------------------------------------------------- C8
\* C8: a revocation that fails at the regeneration of the list, after the
\* certificate was revoked, is answered differently from one that fails at the
\* revocation itself, and the retry that follows that answer completes the
\* operation without running `easyrsa revoke` on the certificate again.
C8_RevokedNotFencedIsRetriable ==
  [][\A r \in Slots :
       /\ (Returns(r, "revoke") /\ req[r].pc = "revoke_crl" /\ req'[r].resp.code = 500)
          => req'[r].resp # Resp(500, "ShellError", ShellMessage("revoke"))
       /\ (Arrives(r, "revoke")
             /\ \E q \in Slots : /\ req[q].op = "revoke" /\ req[q].pc = "done"
                                 /\ req[q].inst = req'[r].inst /\ req[q].client = req'[r].client
                                 /\ req[q].resp = Resp(500, "ShellError", ShellMessage("revoke_crl")))
          => req'[r].pc # "revoke"]_vars

C10_StatusTransitions ==
  [][\A i \in DOMAIN clients \cap DOMAIN clients' :
       \A c \in DOMAIN clients[i] \cap DOMAIN clients'[i] :
         clients'[i][c].status # clients[i][c].status
         => \/ /\ clients[i][c].status = "active"
               /\ clients'[i][c].status = "revoked"
               /\ \E r \in Slots : InFlight(r) /\ req[r].op = "revoke"
                                   /\ req[r].inst = i /\ req[r].client = c
            \/ /\ clients'[i][c].status = "active"
               /\ clients'[i][c].revoked_at = NULL
               /\ clients'[i][c].created_at = now
               /\ \E r \in Slots : InFlight(r) /\ req[r].op = "renew"
                                   /\ req[r].inst = i /\ req[r].client = c]_vars

C10_Witness ==
  \E r \in Slots :
    /\ req[r].op = "renew" /\ req[r].resp.code = 200
    /\ clients[req[r].inst][req[r].client].status = "active"
    /\ clients[req[r].inst][req[r].client].revoked_at = NULL
    /\ req[r].client \in pki[req[r].inst].crl

\* ---------------------------------------------------------------- C11
\* C11: when a create request fails, no instance, server_config or setup_state row
\* exists for the name afterwards, and no directory of the instance that the call
\* made is left on disk.
C11_FailedCreateLeavesNothing ==
  [][\A r \in Slots :
       (Arrives(r, "create") /\ req'[r].resp.code = 500)
       => LET i == req'[r].inst IN
          /\ i \notin DOMAIN instances'
          /\ i \notin DOMAIN server_config'
          /\ i \notin DOMAIN setup_state'
          /\ files'[i].dirs \subseteq files[i].dirs]_vars

\* ---------------------------------------------------------------- C12
\* C12: in every reachable state each instance row has its server_config row and its
\* setup_state row, and no server_config, setup_state or client row is left without
\* its instance.
C12_RowsPaired ==
  /\ DOMAIN server_config = DOMAIN instances
  /\ DOMAIN setup_state = DOMAIN instances
  /\ DOMAIN clients \subseteq DOMAIN instances

C12_Witness ==
  \E r \in Slots :
    /\ req[r].op = "create" /\ req[r].resp.code = 500
    /\ req[r].inst \notin DOMAIN instances
    /\ host.packages

\* ---------------------------------------------------------------- C13
\* C13: once a delete request has answered 200 the instance is gone together with its
\* server_config, setup_state, client and connection-history rows, and a request
\* that names an instance not in the registry is answered 404 by the boundary.
C13_DeleteCascades ==
  [][\A r \in Slots :
       /\ (Returns(r, "delete") /\ req'[r].resp.code = 200)
          => LET i == req[r].inst IN
             /\ i \notin DOMAIN instances'
             /\ i \notin DOMAIN server_config'
             /\ i \notin DOMAIN setup_state'
             /\ i \notin DOMAIN clients'
             /\ connection_log'[i] = <<>>
       /\ (/\ \E op \in {"setup", "issue", "revoke", "renew", "config", "snapshot", "delete"} :
                Arrives(r, op)
           /\ req'[r].inst \notin DOMAIN instances)
          => req'[r].pc = "done" /\ req'[r].resp.code = 404]_vars

C13_Witness ==
  \E r \in Slots :
    /\ req[r].op = "delete" /\ req[r].resp.code = 200
    /\ req[r].inst \notin DOMAIN instances
    /\ pki[req[r].inst].cert["alice"] # "none"

\* ---------------------------------------------------------------- C14
\* C14: a delete that has found its instance never answers an error, whichever of
\* systemctl stop, systemctl disable and the removals fail, and it ends with the
\* instance row deleted.
C14_DeleteBestEffort ==
  [][\A r \in Slots :
       (InFlight(r) /\ req[r].op \in {"delete", "delete_call"} /\ req'[r] # req[r])
       => \/ req[r].pc = "del_stop" /\ req'[r].pc = "del_disable"
          \/ /\ req[r].pc = "del_disable" /\ req'[r].pc = "done"
             /\ req'[r].resp = DeleteAnswer(req[r])
             /\ req[r].inst \notin DOMAIN instances']_vars

C14_Witness ==
  \E r \in Slots :
    /\ req[r].op = "delete" /\ req[r].resp.code = 200
    /\ req[r].inst \notin DOMAIN instances
    /\ host.units[req[r].inst].active
    /\ files[req[r].inst].conf # <<>>

\* ---------------------------------------------------------------- C15
\* C15: InstanceService.delete called for a name that is not in the registry returns
\* at once: it throws nothing, awaits no command and changes no row and no file.
C15_DeleteAbsentIsNoOp ==
  [][\A r \in Slots :
       (Arrives(r, "delete_call") /\ req'[r].inst \notin DOMAIN instances)
       => /\ req'[r].pc = "done"
          /\ req'[r].resp = Reply(0, "returned")
          /\ UNCHANGED <<instances, server_config, setup_state, clients, connection_log,
                         pki, files, host>>]_vars

C15_Witness ==
  \E r \in Slots :
    /\ req[r].op = "delete_call" /\ req[r].pc = "done"
    /\ req[r].inst \notin DOMAIN instances
    /\ "home" \in files[req[r].inst].dirs

\* ---------------------------------------------------------------- C16
\* A chain only grows at its end.
Extends(new, old) == Len(new) >= Len(old) /\ SubSeq(new, 1, Len(old)) = old

\* In this step the chain gains no rule that it already held.
AppendsOnlyAbsent(new, old) ==
  /\ Extends(new, old)
  /\ \A k \in 1..Len(new) : Count(new, new[k]) # Count(old, new[k])
                            => Count(old, new[k]) = 0 /\ Count(new, new[k]) = 1

\* C16: from any rule set, setup runs one after the other that invoke setupNAT with the
\* same subnet, mask and interface add each of the masquerade rule and the two forward
\* rules only where it is absent, and once; a run that has passed setupNAT finds all
\* three installed.
C16_SetupNatIdempotent ==
  [][/\ AppendsOnlyAbsent(host'.nat, host.nat)
     /\ AppendsOnlyAbsent(host'.forward, host.forward)
     /\ \A r \in Slots :
          (req[r].pc \in {"fwdin_check", "fwdin_add"} /\ req'[r].pc = "ipt_save")
          => /\ Count(host'.nat, NatRule(req[r].body.subnet, req[r].body.subnetMask,
                                         req[r].iface)) >= 1
             /\ Count(host'.forward, FwdOutRule(req[r].inst, req[r].iface)) >= 1
             /\ Count(host'.forward, FwdInRule(req[r].inst, req[r].iface)) >= 1]_vars

C16_Witness ==
  \E r \in Slots :
    /\ req[r].op = "setup" /\ req[r].pc = "ipt_save"
    /\ host.saved # <<>>
    /\ Len(host.nat) = 1 /\ Len(host.forward) = 2

\* ---------------------------------------------------------------- C17
NoDuplicates(chain) == \A k \in 1..Len(chain) : Count(chain, chain[k]) = 1

\* C17: when the setups of two instances, run with the same parameters and interleaved
\* in any way, have both completed, the installed rules are those of one setup after
\* the other: one masquerade rule and the two forward rules of each instance, none
\* duplicated.
C17_InterleavedSetupsAgree ==
  (\A i \in AllInstances : setup_state[i].completed)
  => /\ NoDuplicates(host.nat) /\ Len(host.nat) = 1
     /\ NoDuplicates(host.forward) /\ Len(host.forward) = 4

\* ---------------------------------------------------------------- C18
\* C18: a setup request on an instance whose setup is not completed passes the guard
\* and starts its commands whether or not another run is in flight on the instance;
\* it is refused exactly when completed is set, which a run does only at its end.
C18_GuardDoesNotSerialize ==
  [][/\ \A r \in Slots :
          Arrives(r, "setup")
          => LET i == req'[r].inst IN
             IF setup_state[i].completed
               THEN req'[r].pc = "done" /\ req'[r].resp.code = 409
               ELSE /\ req'[r].pc = SetupCmds[1]
                    /\ setup_state'[i].step = StepOfCmd(SetupCmds[1])
     /\ \A i \in DOMAIN setup_state :
          (~setup_state[i].completed /\ setup_state'[i].completed)
          => \E r \in Slots : req[r].pc = "svc_start" /\ req'[r].resp.code = 200]_vars

C18_Witness ==
  \E r, q \in Slots :
    /\ r # q /\ InFlight(r) /\ InFlight(q)
    /\ req[r].op = "setup" /\ req[q].op = "setup" /\ req[r].inst = req[q].inst
    /\ CmdIndex(req[r].pc) >= 3 /\ CmdIndex(req[q].pc) >= 3
    /\ Count(host.nat, host.nat[1]) = 2

\* ---------------------------------------------------------------- C19
\* Path p is path q or a directory above it.
IsPrefix(p, q) == Len(p) <= Len(q) /\ SubSeq(q, 1, Len(p)) = p

InstancePaths(row) ==
  {row.easyrsa_dir, row.config_path, row.status_file, row.log_file, row.ccd_dir}

\* C19: for two distinct instances, no stored path of one equals a stored path of the
\* other or lies inside it.
C19_PathsIsolated ==
  \A i, j \in DOMAIN instances :
    i # j => \A p \in InstancePaths(instances[i]), q \in InstancePaths(instances[j]) :
               ~IsPrefix(p, q)

\* ---------------------------------------------------------------- C20
\* C20: the row get(name) reads holds, from its creation on and through every later
\* operation, <serverDir>/<name>/easy-rsa, <serverDir>/<name>.conf,
\* <logDir>/<name>-status.log, <logDir>/<name>.log and <serverDir>/<name>/ccd.
C20_StoredPathsFollowScheme ==
  [][\A n \in DOMAIN instances' :
       /\ instances'[n].easyrsa_dir = <<serverDir, n, "easy-rsa">>
       /\ instances'[n].config_path = <<serverDir, n \o ".conf">>
       /\ instances'[n].status_file = <<logDir, n \o "-status.log">>
       /\ instances'[n].log_file = <<logDir, n \o ".log">>
       /\ instances'[n].ccd_dir = <<serverDir, n, "ccd">>
       /\ n \in DOMAIN instances
          => InstancePaths(instances'[n]) = InstancePaths(instances[n])]_vars

C20_Witness ==
  /\ "office" \in DOMAIN instances
  /\ instances["office"].status # "setup"
  /\ instances["office"].ccd_dir = <<"/etc/openvpn/server", "office", "ccd">>
  /\ instances["office"].status_file = <<"/var/log/openvpn", "office-status.log">>

\* ---------------------------------------------------------------- C21
\* C21: the connection history of an instance holds at most one row per client
\* name, whatever snapshots were recorded.
C21_OneRowPerClient ==
  \A i \in DOMAIN connection_log :
    \A k, l \in 1..Len(connection_log[i]) :
      connection_log[i][k].client_name = connection_log[i][l].client_name => k = l

\* ---------------------------------------------------------------- C22
\* A whole client record: marked with its eight fields, or unmarked with at least five.
WellFormed(line) ==
  \/ line[1] = "CLIENT_LIST" /\ Len(line) >= 8
  \/ line[1] \in ClientNames /\ Len(line) >= 5

\* C22: the connections parsed from a feed of either form are as many as its
\* well-formed client records; a record cut short contributes none.
C22_OneConnectionPerRecord ==
  \A r \in Slots :
    (req[r].pc = "snap_record" /\ req[r].content.exists)
    => Len(req[r].conns)
         = Cardinality({k \in 1..Len(req[r].content.text) : WellFormed(req[r].content.text[k])})

Renders(r) == Arrives(r, "config") /\ req'[r].pc = "cfg_write"

LinesWhere(out, Test(_)) == SelectSeq(out, Test)

IsDnsPush(line) == line.d = "push" /\ line.args[1] = "dhcp-option"

\* C25: the rendering of a row has the line server <subnet> <mask> and no bridge line
\* if the device type is tun, the bridge line and no subnet line otherwise; its DNS
\* push lines are those of the row's resolvers, in order; it has the tls-auth line
\* iff tls_auth is set, the two compression lines iff compress is not empty and
\* the client-to-client line iff client_to_client is set.
C25_ConditionalDirectives ==
  \A r \in Slots :
    (req[r].op = "config" /\ req[r].pc = "cfg_write")
    => LET out == req[r].conf[1]
           row == server_config[req[r].inst]
           N(Test(_)) == Len(SelectSeq(out, Test))
       IN
       /\ N(LAMBDA l : l.d = "server") = IF row.dev_type = "tun" THEN 1 ELSE 0
       /\ N(LAMBDA l : l.d = "server-bridge") = IF row.dev_type = "tun" THEN 0 ELSE 1
       /\ row.dev_type = "tun"
          => N(LAMBDA l : l = [d |-> "server",
                               args |-> <<row.subnet, MaskText(row.subnet_mask)>>]) = 1
       /\ LinesWhere(out, IsDnsPush)
            = [k \in 1..Len(row.dns) |-> [d |-> "push", args |-> <<"dhcp-option", "DNS", row.dns[k]>>]]
       /\ N(LAMBDA l : l.d = "tls-auth") = IF row.tls_auth # 0 THEN 1 ELSE 0
       /\ N(LAMBDA l : l.d = "compress") = IF row.compress # "" THEN 1 ELSE 0
       /\ N(LAMBDA l : l.d = "push" /\ l.args[1] = "compress") = IF row.compress # "" THEN 1 ELSE 0
       /\ N(LAMBDA l : l.d = "client-to-client") = IF row.client_to_client # 0 THEN 1 ELSE 0

C25_Witness ==
  \E r \in Slots :
    /\ req[r].op = "config" /\ req[r].pc = "cfg_write"
    /\ server_config[req[r].inst].dev_type = "tap"
    /\ Len(server_config[req[r].inst].dns) = 2
    /\ server_config[req[r].inst].tls_auth = 0
    /\ server_config[req[r].inst].compress # ""
    /\ \E k \in 1..Len(req[r].conf[1]) : req[r].conf[1][k].d = "server-bridge"

\* ---------------------------------------------------------------- C26
\* The five tables.
Database == Db(instances, server_config, setup_state, clients, connection_log)

\* C26: on a legacy database the migration either returns, and then the only instance
\* is "default" and the server_config row, the setup_state row, the clients and the
\* history rows that were there are its rows, unaltered; or it throws, and then every
\* table is as it was. On any other database it returns and changes nothing.
C26_MigrationAllOrNothing ==
  [][\A r \in Slots :
       Arrives(r, "migrate")
       => IF IsLegacy(Database)
            THEN \/ /\ req'[r].resp = Reply(0, "returned")
                    /\ DOMAIN instances' = {"default"}
                    /\ server_config' = [n \in {"default"} |-> server_config[LegacyKey]]
                    /\ setup_state' = [n \in {"default"} |-> setup_state[LegacyKey]]
                    /\ clients' = [n \in {"default"} |-> clients[LegacyKey]]
                    /\ connection_log' = [n \in {"default"} |-> connection_log[LegacyKey]]
                 \/ /\ req'[r].resp.error = "Error"
                    /\ Database' = Database
            ELSE req'[r].resp = Reply(0, "returned") /\ Database' = Database]_vars

C26_Witness ==
  \E r \in Slots :
    /\ req[r].op = "migrate" /\ req[r].resp = Reply(0, "returned") /\ ops >= 2
    /\ DOMAIN instances = {"default"}
    /\ clients["default"] # <<>> /\ Len(connection_log["default"]) = 2
    /\ setup_state["default"].completed

\* ---------------------------------------------------------------- C27
\* C27: whether the restart that ends a client revocation, a server-config update or
\* a pushed-route update succeeds or fails, the request is answered 200 and the step
\* leaves the tables and the files as the primary operation wrote them: the client
\* revoked, the config file as the handler rendered or rewrote it.
C27_RestartNeverDecides ==
  [][\A r \in Slots :
       (req[r].pc \in {"restart", "cfg_restart", "rt_restart"} /\ req'[r] # req[r])
       => LET i == req[r].inst IN
          /\ req'[r].pc = "done" /\ req'[r].resp.code = 200
          /\ UNCHANGED <<instances, server_config, setup_state, clients, pki, files>>
          /\ (req[r].op = "revoke" /\ HasClient(i, req[r].client))
             => clients'[i][req[r].client].status = "revoked"
          /\ (req[r].op = "config" /\ i \in DOMAIN server_config)
             => files'[i].conf = <<generateServerConfig(server_config'[i], i)>>
          /\ (req[r].op = "routes" /\ req[r].conf # <<>>) => files'[i].conf = req[r].conf]_vars

C27_Witness ==
  \E r \in Slots :
    /\ req[r].op = "routes" /\ req[r].pc = "done" /\ req[r].resp = Reply(200, "routes")
    /\ ~host.units[req[r].inst].active
    /\ files[req[r].inst].conf # <<>>
    /\ \E k \in 1..Len(files[req[r].inst].conf[1]) : IsRoutePush(files[req[r].inst].conf[1][k])

\* ---------------------------------------------------------------- C28
\* The status code of each kind of error.
CodeOf(kind) ==
  CASE kind = "NotFoundError" -> 404
    [] kind = "ValidationError" -> 400
    [] kind = "ConflictError" -> 409
    [] OTHER -> 500

\* C28: the answer to a request that failed names the kind of the error in its error
\* field, carries a message, and has the status code of that kind.
C28_StructuredErrors ==
  \A r \in Slots :
    (req[r].pc = "done" /\ req[r].resp.code >= 400)
    => /\ req[r].resp.error \in ErrorKinds
       /\ req[r].resp.message # NoText
       /\ req[r].resp.code = CodeOf(req[r].resp.error)

\* ---------------------------------------------------------------- C29
\* C29: a request to a route under /api that carries no key or a key other than the
\* configured one is answered 401 and no handler runs for it: no table, no file and
\* nothing on the host changes; /health is answered 200 whatever the key.
C29_NoHandlerWithoutKey ==
  [][\A r \in Slots, key \in Keys :
       /\ (key # ApiKey /\ Api(r, key))
          => /\ req'[r].pc = "done" /\ req'[r].resp.code = 401
             /\ UNCHANGED <<instances, server_config, setup_state, clients, connection_log,
                            pki, files, host>>
       /\ Health(r, key) => req'[r].resp.code = 200]_vars

C29_Witness ==
  \E r \in Slots :
    /\ req[r].op = "api" /\ req[r].resp.code = 401
    /\ "office" \in DOMAIN instances /\ files["office"].conf # <<>>

\* ---------------------------------------------------------------- C30
\* C30: a create under a name that exists, as a POST or as a direct call of
\* InstanceService.create, fails as a conflict and leaves the rows of the instance,
\* its authority and its directories and files as they were.
C30_DuplicateCreateChangesNothing ==
  [][\A r \in Slots :
       ((Arrives(r, "create") \/ Arrives(r, "create_call"))
          /\ req'[r].inst \in DOMAIN instances)
       => /\ req'[r].pc = "done"
          /\ req'[r].resp.error \in {"ConflictError", "Error"}
          /\ req'[r].op = "create" => req'[r].resp.code = 409
          /\ UNCHANGED <<instances, server_config, setup_state, clients, pki, files>>]_vars

\* ---------------------------------------------------------------- C31
\* C31: when a create succeeds, by POST or by a direct call, the new instance has
\* status "setup", setup step none with completed false, and the default server
\* configuration: hostname vpn.example.com, port 1194 and a list of resolvers.
C31_FreshInstanceDefaults ==
  [][\A r \in Slots :
       ((Arrives(r, "create") \/ Arrives(r, "create_call"))
          /\ req'[r].resp.error = NoText)
       => LET i == req'[r].inst IN
          /\ i \in DOMAIN instances' /\ i \in DOMAIN setup_state' /\ i \in DOMAIN server_config'
          /\ instances'[i].status = "setup"
          /\ setup_state'[i].step = "none" /\ ~setup_state'[i].completed
          /\ setup_state'[i].error = NoText
          /\ server_config'[i].hostname = "vpn.example.com"
          /\ server_config'[i].port = 1194
          /\ server_config'[i].dns = <<"1.1.1.1", "1.0.0.1">>
          /\ server_config'[i] = [DefaultServerConfig EXCEPT !.updated_at = now]]_vars

C31_Witness ==
  \E r \in Slots :
    /\ req[r].op = "create" /\ req[r].pc = "done" /\ req[r].resp.code = 201
    /\ req[r].inst \in DOMAIN instances
    /\ instances[req[r].inst].status = "setup"
    /\ setup_state[req[r].inst].step = "none"
    /\ server_config[req[r].inst].port = 1194

\* ---------------------------------------------------------------- C32
\* C32: an issue request with a static address that is answered 201 has written the
\* client's override: one ifconfig-push line with that address and the subnet mask
\* of the instance's server_config row; an issue request without a static address
\* writes no file in any of its steps.
C32_StaticAddressOverride ==
  [][\A r \in Slots :
       LET i == req[r].inst
           c == req[r].client
       IN
       /\ (Returns(r, "issue") /\ req'[r].resp.code = 201 /\ req[r].staticIp # "NULL")
          => /\ Len(files'[i].ccd[c]) = 1
             /\ files'[i].ccd[c][1].ip = req[r].staticIp
             /\ files'[i].ccd[c][1].mask = server_config[i].subnet_mask
       /\ (InFlight(r) /\ req[r].op = "issue" /\ req[r].staticIp = "NULL" /\ req'[r] # req[r])
          => UNCHANGED files]_vars

\* An override written with a mask that a setup run configured.
C32_Witness ==
  \E r \in Slots :
    /\ req[r].op = "issue" /\ req[r].pc = "done" /\ req[r].resp.code = 201
    /\ files[req[r].inst].ccd[req[r].client] # <<>>
    /\ files[req[r].inst].ccd[req[r].client][1].ip = "10.8.0.5"
    /\ files[req[r].inst].ccd[req[r].client][1].mask = <<255, 255, 0, 0>>
    /\ server_config[req[r].inst].subnet_mask = <<255, 255, 0, 0>>

\* ---------------------------------------------------------------- C33
\* The column `col` is named by a field of the body.
Written(body, col) == \E k \in DOMAIN body : UpdateColumn(k) = col

\* The row holds the value of every field of the body.
Carries(row, body) == \A k \in DOMAIN body : row[UpdateColumn(k)] = ColumnValue(k, body[k])

\* C33: a server-config update writes the fields of its body, and updated_at with
\* them, into the row of its instance and leaves every other column and every
\* other instance's row as it was; no later step of the request writes the row,
\* and the 200 answer carries the row with the new values.
C33_UpdateWritesOnlyItsFields ==
  [][\A r \in Slots :
       LET i == req'[r].inst
           body == req'[r].row
       IN
       /\ (Arrives(r, "config") /\ req'[r].pc = "cfg_write")
          => /\ Carries(server_config'[i], body)
             /\ \A col \in DOMAIN server_config[i] :
                  ~Written(body, col)
                  => \/ server_config'[i][col] = server_config[i][col]
                     \/ col = "updated_at" /\ body # NoUpdate /\ server_config'[i][col] = now
             /\ \A j \in DOMAIN server_config \ {i} : server_config'[j] = server_config[j]
             /\ DOMAIN server_config' = DOMAIN server_config
       /\ (InFlight(r) /\ req[r].op = "config")
          => /\ server_config'[i] = server_config[i]
             /\ (req'[r].pc = "done" /\ req'[r].resp.code = 200)
                => /\ req'[r].row = server_config[i]
                   /\ Carries(req'[r].row, req[r].row)]_vars

\* An update of two fields of one instance was answered with the new values while
\* the other instance's row is the default one.
C33_Witness ==
  \E r \in Slots :
    /\ req[r].op = "config" /\ req[r].pc = "done" /\ req[r].resp.code = 200
    /\ req[r].inst = "office"
    /\ req[r].row # <<>>
    /\ req[r].row.hostname = "new-vpn.test.com" /\ req[r].row.max_clients = 50
    /\ req[r].row.port = 1194
    /\ server_config["office-status"] = [DefaultServerConfig EXCEPT !.updated_at = 0]

\* ---------------------------------------------------------------- C34
\* C34: an issue request for a name that has a row in its instance, whether the row
\* was there when the request arrived or was inserted while the request awaited
\* build-client-full, is answered 409 as a conflict and leaves the clients table as
\* it was; a row of the same name in another instance is no conflict.
C34_DuplicateIssueConflicts ==
  [][\A r \in Slots :
       LET i == req'[r].inst
           c == req'[r].client
       IN
       /\ ((Arrives(r, "issue") \/ (InFlight(r) /\ req[r].op = "issue" /\ req[r].pc = "c_build"
                                      /\ req'[r] # req[r]))
             /\ HasClient(i, c))
          => /\ req'[r].pc = "done"
             /\ req'[r].resp.code = 409 /\ req'[r].resp.error = "ConflictError"
             /\ clients' = clients
       /\ (Arrives(r, "issue") /\ i \in DOMAIN instances /\ ~HasClient(i, c))
          => req'[r].pc = "c_build"]_vars

\* ---------------------------------------------------------------- C35
\* C35: maskToCidr gives n for the netmask of every prefix length n from 0 to 32,
\* and the masquerade rule a setup run appends has the source <subnet>/<n> for the
\* subnet and the mask of its body.
C35_MaskToCidrIsPrefixLength ==
  [][/\ \A n \in PrefixLengths : maskToCidr(PrefixMask(n)) = n
     /\ \A r \in Slots :
          (InFlight(r) /\ req[r].pc = "nat_add" /\ host'.nat # host.nat)
          => /\ Len(host'.nat) = Len(host.nat) + 1
             /\ \A n \in PrefixLengths :
                  req[r].body.subnetMask = PrefixMask(n)
                  => host'.nat[Len(host'.nat)] =
                       [src |-> req[r].body.subnet, cidr |-> n, in |-> "",
                        out |-> req[r].iface, target |-> "MASQUERADE"]]_vars

\* The rule of a mask that does not end at an octet: 255.255.224.0 is /19.
C35_Witness ==
  /\ server_config["office"].subnet_mask = <<255, 255, 224, 0>>
  /\ \E k \in 1..Len(host.nat) : host.nat[k].cidr = 19 /\ host.nat[k].src = "10.8.0.0"

\* ---------------------------------------------------------------- C36
\* C36: the step that makes a client's row revoked is the one in which gen-crl
\* succeeds, on a certificate that easyrsa revoke has already revoked, and the list
\* written names the client; while a revocation awaits either command the row is
\* active, and a revocation that throws at either command leaves the table as it was.
C36_RevokedAfterAuthority ==
  [][/\ \A i \in DOMAIN clients' : \A c \in DOMAIN clients'[i] :
          (clients'[i][c].status = "revoked"
             /\ ~(HasClient(i, c) /\ clients[i][c].status = "revoked"))
          => /\ pki[i].cert[c] = "revoked" /\ pki'[i].cert[c] = "revoked"
             /\ c \in pki'[i].crl
             /\ \E r \in Slots : /\ req[r].op = "revoke" /\ req[r].pc = "revoke_crl"
                                 /\ req[r].inst = i /\ req[r].client = c
     /\ \A r \in Slots :
          (InFlight(r) /\ req[r].op = "revoke" /\ req[r].pc \in {"revoke", "revoke_crl"})
          => /\ clients[req[r].inst][req[r].client].status = "active"
             /\ req'[r].pc = "done" => clients' = clients]_vars

C36_Witness ==
  \E r \in Slots :
    /\ req[r].op = "revoke" /\ req[r].pc = "done" /\ req[r].resp.code = 200
    /\ clients[req[r].inst][req[r].client].status = "revoked"
    /\ pki[req[r].inst].cert[req[r].client] = "revoked"
    /\ req[r].client \in pki[req[r].inst].crl

\* ---------------------------------------------------------------- C37
\* C37: while no request is in flight on an instance, every client of it whose row
\* says active has a certificate in the authority that is not revoked.
C37_ActiveHasValidCertificate ==
  \A i \in DOMAIN clients :
    Quiet(i) => \A c \in DOMAIN clients[i] :
                  clients[i][c].status = "active" => pki[i].cert[c] = "valid"

C39_EntryPointsAgree ==
  [][\A r \in Slots :
       ((Returns(r, "setup") \/ Returns(r, "wizard")) /\ req[r].inst \in DOMAIN setup_state')
       => LET i == req[r].inst IN
          IF req'[r].resp.error = NoText
            THEN /\ setup_state'[i].step = "running" /\ setup_state'[i].completed
                 /\ instances'[i].status = "active"
            ELSE /\ setup_state'[i].error = ShellMessage(req[r].pc)
                 /\ instances'[i].status = "error"
                 /\ ~setup_state'[i].completed]_vars

\* ---------------------------------------------------------------- C40
\* C40: when a route update with the list R is answered 200, reading the routes of
\* the instance gives R; and a step that is not the write of a route update leaves
\* what reading the routes of an instance gives as it was, while the instance exists.
C40_RoutesRoundTrip ==
  [][/\ \A r \in Slots :
          (Returns(r, "routes") /\ req'[r].resp.code = 200)
          => getRoutes(files'[req[r].inst]) = req'[r].routes
     /\ \A i \in DOMAIN instances \cap DOMAIN instances' :
          (~\E r \in Slots : req[r].op = "routes" /\ req[r].pc = "rt_write" /\ req[r].inst = i)
          => getRoutes(files'[i]) = getRoutes(files[i])]_vars

====
